---- MODULE Spec2Model ----
(***************************************************************************)
(* Verification model of the 3-D van Leer unsplit integrator of Athena     *)
(* (integrate_3d_vl.c), its first-order flux correction, the corner-EMF    *)
(* assemblers, the piecewise-linear reconstruction (lr_states_plm.c) and   *)
(* the conserved/primitive conversions (convert_var.c).                    *)
(*                                                                         *)
(* Reals are modelled exactly as rationals <<n, d>> with d > 0 and         *)
(* gcd(n, d) = 1.  Two non-numbers exist: Stale == <<0, 0>> is the content *)
(* a scratch array holds from before the current step, NaN == <<1, 0>> is  *)
(* the result of a division by zero.  Both propagate through arithmetic.   *)
(***************************************************************************)
EXTENDS Integers, Sequences, FiniteSets, TLC

(***************************************************************************)
(* Exact rational arithmetic                                               *)
(***************************************************************************)
RECURSIVE Gcd(_, _)
Gcd(x, y) == IF y = 0 THEN x ELSE Gcd(y, x % y)

Abs(x) == IF x < 0 THEN -x ELSE x

Stale == <<0, 0>>
NaN == <<1, 0>>

IsNum(x) == x[2] # 0
IsStale(x) == x[2] = 0 /\ x[1] = 0

\* the non-number two operands produce: staleness wins over NaN
Bad(x, y) == IF IsStale(x) \/ IsStale(y) THEN Stale ELSE NaN

Norm(n, d) ==
  IF n = 0 THEN <<0, 1>>
  ELSE IF d = 1 THEN <<n, 1>>
  ELSE LET g == Gcd(Abs(n), Abs(d))
       IN  IF d < 0 THEN <<(-n) \div g, (-d) \div g>> ELSE <<n \div g, d \div g>>

R(n) == <<n, 1>>
Zero == <<0, 1>>
One == <<1, 1>>
Half == <<1, 2>>
Quarter == <<1, 4>>

RAdd(x, y) ==
  IF x[2] = 0 \/ y[2] = 0 THEN Bad(x, y)
  ELSE IF x[1] = 0 THEN y
  ELSE IF y[1] = 0 THEN x
  ELSE IF x[2] = y[2] THEN Norm(x[1] + y[1], x[2])
  ELSE LET g == Gcd(x[2], y[2])
       IN  Norm(x[1] * (y[2] \div g) + y[1] * (x[2] \div g), (x[2] \div g) * y[2])

RNeg(x) == IF x[2] = 0 THEN x ELSE <<-x[1], x[2]>>

RSub(x, y) == RAdd(x, RNeg(y))

RMul(x, y) ==
  IF x[2] = 0 \/ y[2] = 0 THEN Bad(x, y)
  ELSE IF x[1] = 0 \/ y[1] = 0 THEN Zero
  ELSE IF x[2] = 1 /\ y[2] = 1 THEN <<x[1] * y[1], 1>>
  ELSE LET g == Gcd(Abs(x[1]), y[2])
           h == Gcd(Abs(y[1]), x[2])
       IN  <<(x[1] \div g) * (y[1] \div h), (x[2] \div h) * (y[2] \div g)>>

\* x / y as C computes it on reals; y = 0 gives a non-number
RDiv(x, y) ==
  IF x[2] = 0 \/ y[2] = 0 THEN Bad(x, y)
  ELSE IF y[1] = 0 THEN NaN
  ELSE IF y[1] < 0 THEN RMul(x, <<-y[2], -y[1]>>)
  ELSE RMul(x, <<y[2], y[1]>>)

\* comparisons are false on non-numbers, as C's are on a NaN
RLt(x, y) ==
  /\ x[2] # 0 /\ y[2] # 0
  /\ IF x[2] = y[2] THEN x[1] < y[1]
     ELSE LET g == Gcd(x[2], y[2])
          IN  x[1] * (y[2] \div g) < y[1] * (x[2] \div g)
RGt(x, y) == RLt(y, x)
RPos(x) == x[2] # 0 /\ x[1] > 0
RNegative(x) == x[2] # 0 /\ x[1] < 0
RLe0(x) == x[2] # 0 /\ x[1] <= 0

SQR(x) == RMul(x, x)
\* the macros MAX(a,b) = ((a) > (b) ? (a) : (b)) and MIN of defs.h; a stale
\* operand makes the selection itself depend on stale data
MAX(a, b) == IF IsStale(a) \/ IsStale(b) THEN Stale ELSE IF RGt(a, b) THEN a ELSE b
MIN(a, b) == IF IsStale(a) \/ IsStale(b) THEN Stale ELSE IF RLt(a, b) THEN a ELSE b
fabs(x) == IF x[2] = 0 THEN x ELSE <<Abs(x[1]), x[2]>>
\* SIGN(a) = ((a) < 0. ? -1. : 1.)
SIGN(a) == IF IsStale(a) THEN Stale ELSE IF RNegative(a) THEN R(-1) ELSE One

Add3(a, b, c) == RAdd(RAdd(a, b), c)

(***************************************************************************)
(* Build configuration and grid extents                                    *)
(***************************************************************************)
\* active cells per direction (pGrid->is..ie, js..je, ks..ke)
Nx1 == 2
Nx2 == 1
Nx3 == 1
\* ghost zones of the build; the minimum integrate_init_3d accepts for
\* SECOND_ORDER with FIRST_ORDER_FLUX_CORRECTION
nghost == 4
\* stencil width s of the reconstruction: ib = il + s (SECOND_ORDER)
sOrder == 2
\* number of input blocks tried is NScen + 1 (0 and 1 are uniform states)
NScen == 3

is == nghost
ie == is + Nx1 - 1
js == nghost
je == js + Nx2 - 1
ks == nghost
ke == ks + Nx3 - 1
il == is - nghost
iu == ie + nghost
jl == js - nghost
ju == je + nghost
kl == ks - nghost
ku == ke + nghost
ib == il + sOrder
it == iu - sOrder
jb == jl + sOrder
jt == ju - sOrder
kb == kl + sOrder
kt == ku - sOrder

\* the allocated index ranges: Nx + 2*nghost entries per direction
II == 0 .. (Nx1 + 2 * nghost - 1)
JJ == 0 .. (Nx2 + 2 * nghost - 1)
KK == 0 .. (Nx3 + 2 * nghost - 1)

Arr3(f(_, _, _)) == [k \in KK |-> [j \in JJ |-> [i \in II |-> f(k, j, i)]]]

\* the loop nest  for k = k0..k1, j = j0..j1, i = i0..i1
InLoop(k, j, i, k0, k1, j0, j1, i0, i1) ==
  k0 <= k /\ k <= k1 /\ j0 <= j /\ j <= j1 /\ i0 <= i /\ i <= i1

Active(k, j, i) == InLoop(k, j, i, ks, ke, js, je, is, ie)

\* Gamma - 1 for Gamma = 3/2, and the pressure floor TINY_NUMBER
Gamma_1 == <<1, 2>>
TINY_NUMBER == <<1, 1024>>

(***************************************************************************)
(* Program state                                                           *)
(***************************************************************************)
VARIABLES
  pc,              \* the step of integrate_3d_vl about to run
  MHD,             \* the build defines MHD
  StaticGravPot,   \* NULL or the gradient <<g1, g2, g3>> of a linear potential
  dt, dx1, dx2, dx3,
  disp,            \* <<idisp, jdisp, kdisp>>: where the block sits in the global grid
  U, B1i, B2i, B3i,                        \* pGrid
  Uhalf,
  B1_x1Face, B2_x2Face, B3_x3Face,
  Ul_x1Face, Ur_x1Face, Ul_x2Face, Ur_x2Face, Ul_x3Face, Ur_x3Face,
  x1Flux, x2Flux, x3Flux,
  emf1, emf2, emf3, emf1_cc, emf2_cc, emf3_cc,
  Ineg, negcount,
  perr,            \* the cells ath_perr has reported: <<k, j, i, density>>, global indices
  solver,          \* what the Riemann solver adds to its base flux in this pass
  solverDet,       \* every call so far returned the base flux
  in,              \* the block as integrate_3d_vl received it
  U12,             \* pGrid->U as Step 12 left it, before the corrector update
  acct,            \* per cell, what it has received through each of its six
                   \* interfaces since Step 12: <<l1, r1, l2, r2, l3, r3>>
  cfg,             \* build options, and how far build and integrate_init_3d got
  plm,             \* a strip handed to lr_states, with the Wl and Wr it fills
  cv,              \* a state handed to the functions of convert_var.c, and what they return
  writtenBy,       \* per entry of Uhalf, the fluxes and the EMFs, the step that
                   \* wrote it last;
  sw,              \* the sweeps of one phase taken row by row: the scratch rows they
                   \* share, and how far each sweep got
  ix               \* a block size, and the one array access of the step that is followed

gridVars == <<MHD, StaticGravPot, dt, dx1, dx2, dx3, disp>>
bVars == <<B1i, B2i, B3i>>
faceVars == <<B1_x1Face, B2_x2Face, B3_x3Face>>
lrVars == <<Ul_x1Face, Ur_x1Face, Ul_x2Face, Ur_x2Face, Ul_x3Face, Ur_x3Face>>
fluxVars == <<x1Flux, x2Flux, x3Flux>>
emfVars == <<emf1, emf2, emf3>>
ccVars == <<emf1_cc, emf2_cc, emf3_cc>>
negVars == <<Ineg, negcount, perr>>
hist == <<in, U12, acct, cfg, plm, cv, sw, ix>>
vars == <<pc, gridVars, U, bVars, Uhalf, faceVars, lrVars, fluxVars, emfVars,
          ccVars, negVars, solver, solverDet, hist, writtenBy>>

dtodx1 == RDiv(dt, dx1)
dtodx2 == RDiv(dt, dx2)
dtodx3 == RDiv(dt, dx3)

(***************************************************************************)
(* Build options and integrate_init_3d                                     *)
(***************************************************************************)
\* integrate_3d_vl.c defines FIRST_ORDER_FLUX_CORRECTION itself
FIRST_ORDER_FLUX_CORRECTION == TRUE

\* integrate_init_3d without the increment for the flux correction
minghost_nofofc(order, mhd, hcorr) ==
  (IF order = 1 THEN 2 ELSE IF order = 2 THEN 3 ELSE 4)
    + (IF mhd /\ hcorr THEN 1 ELSE 0)
\* the ghost zones integrate_init_3d asks for: order is 1, 2, 3 for
\* FIRST_ORDER, SECOND_ORDER, THIRD_ORDER
minghost(order, mhd, hcorr) ==
  (IF order = 1 THEN 2 ELSE IF order = 2 THEN 3 ELSE 4)
    + (IF mhd /\ hcorr THEN 1 ELSE 0)
    + (IF FIRST_ORDER_FLUX_CORRECTION THEN 1 ELSE 0)

(***************************************************************************)
(* The input block                                                         *)
(***************************************************************************)
\* face fields of profile p; each is solenoidal
Face1(p, k, j, i) == R(1 + ((p * (j + k)) % 2))
Face2(p, k, j, i) == R(2 + ((p * (i + k)) % 2))
Face3(p, k, j, i) == R(((p * (i + 2 * j)) % 2) - 1)

GasInit(p, mhd, k, j, i) ==
  LET b1 == IF mhd THEN RMul(Half, RAdd(Face1(p, k, j, i), Face1(p, k, j, i + 1))) ELSE Zero
      b2 == IF mhd THEN RMul(Half, RAdd(Face2(p, k, j, i), Face2(p, k, j + 1, i))) ELSE Zero
      b3 == IF mhd THEN RMul(Half, RAdd(Face3(p, k, j, i), Face3(p, k + 1, j, i))) ELSE Zero
  IN  [d   |-> R(1 + ((p * (i + j + k)) % 2)),
       M1  |-> R(((p * (j + k)) % 2) - 1),
       M2  |-> R((p * (i + k)) % 2),
       M3  |-> R(-((p * (i + j)) % 2)),
       E   |-> R(60 + 2 * ((p * (i + j + k)) % 2)),
       B1c |-> b1, B2c |-> b2, B3c |-> b3,
       s   |-> R(1 + ((p * (i + 2 * j + k)) % 3))]

StaleGas == [d |-> Stale, M1 |-> Stale, M2 |-> Stale, M3 |-> Stale, E |-> Stale,
             B1c |-> Stale, B2c |-> Stale, B3c |-> Stale, s |-> Stale]
StaleCons1D == [d |-> Stale, Mx |-> Stale, My |-> Stale, Mz |-> Stale, E |-> Stale,
                By |-> Stale, Bz |-> Stale, s |-> Stale]

\* what the solver adds to the mass flux and to the By flux at one interface
NoPert == [dir |-> 0, k |-> 0, j |-> 0, i |-> 0, dd |-> Zero, dB |-> Zero]

NULL == <<>>

\* an amount of each conserved hydro quantity, and six of them all zero
ZeroAmt == [d |-> Zero, M1 |-> Zero, M2 |-> Zero, M3 |-> Zero, E |-> Zero, s |-> Zero]
NoAmts == <<ZeroAmt, ZeroAmt, ZeroAmt, ZeroAmt, ZeroAmt, ZeroAmt>>

\* input n: profile n \div 2, MHD build for even n, and a static potential
\* from the fourth input on
Scenarios ==
  { [prof |-> n \div 2, mhd |-> (n % 2 = 0),
     grav |-> IF n >= 3 THEN <<One, R(-1), Half>> ELSE NULL] : n \in 0 .. NScen }

\* no step has written anything yet
NoneYet ==
  LET none == Arr3(LAMBDA k, j, i : "none")
  IN  [UhalfH |-> none, UhalfB |-> none, x1Flux |-> none, x2Flux |-> none,
       x3Flux |-> none, cc |-> none, emf1 |-> none, emf2 |-> none, emf3 |-> none]

Init ==
  \E sc \in Scenarios :
    /\ pc = "p0"
    /\ MHD = sc.mhd
    /\ StaticGravPot = sc.grav
    /\ dt = Half /\ dx1 = One /\ dx2 = One /\ dx3 = One
    /\ U = Arr3(LAMBDA k, j, i : GasInit(sc.prof, sc.mhd, k, j, i))
    /\ B1i = Arr3(LAMBDA k, j, i : IF sc.mhd THEN Face1(sc.prof, k, j, i) ELSE Zero)
    /\ B2i = Arr3(LAMBDA k, j, i : IF sc.mhd THEN Face2(sc.prof, k, j, i) ELSE Zero)
    /\ B3i = Arr3(LAMBDA k, j, i : IF sc.mhd THEN Face3(sc.prof, k, j, i) ELSE Zero)
    /\ in = [U |-> U, B1i |-> B1i, B2i |-> B2i, B3i |-> B3i]
    /\ Uhalf = Arr3(LAMBDA k, j, i : StaleGas)
    /\ B1_x1Face = Arr3(LAMBDA k, j, i : Stale)
    /\ B2_x2Face = Arr3(LAMBDA k, j, i : Stale)
    /\ B3_x3Face = Arr3(LAMBDA k, j, i : Stale)
    /\ Ul_x1Face = Arr3(LAMBDA k, j, i : StaleCons1D)
    /\ Ur_x1Face = Arr3(LAMBDA k, j, i : StaleCons1D)
    /\ Ul_x2Face = Arr3(LAMBDA k, j, i : StaleCons1D)
    /\ Ur_x2Face = Arr3(LAMBDA k, j, i : StaleCons1D)
    /\ Ul_x3Face = Arr3(LAMBDA k, j, i : StaleCons1D)
    /\ Ur_x3Face = Arr3(LAMBDA k, j, i : StaleCons1D)
    /\ x1Flux = Arr3(LAMBDA k, j, i : StaleCons1D)
    /\ x2Flux = Arr3(LAMBDA k, j, i : StaleCons1D)
    /\ x3Flux = Arr3(LAMBDA k, j, i : StaleCons1D)
    /\ emf1 = Arr3(LAMBDA k, j, i : Stale)
    /\ emf2 = Arr3(LAMBDA k, j, i : Stale)
    /\ emf3 = Arr3(LAMBDA k, j, i : Stale)
    /\ emf1_cc = Arr3(LAMBDA k, j, i : Stale)
    /\ emf2_cc = Arr3(LAMBDA k, j, i : Stale)
    /\ emf3_cc = Arr3(LAMBDA k, j, i : Stale)
    /\ Ineg = Arr3(LAMBDA k, j, i : -1)
    /\ negcount = 0
    /\ perr = {}
    /\ disp = <<16, 0, 32>>
    /\ solver = NoPert
    /\ solverDet = TRUE
    /\ U12 = U
    /\ acct = Arr3(LAMBDA k, j, i : NoAmts)
    /\ cfg = [order |-> sOrder, mhd |-> sc.mhd, hcorr |-> FALSE, nghost |-> nghost,
               stage |-> "ready", minghost |-> minghost(sOrder, sc.mhd, FALSE)]
    /\ plm = NULL
    /\ cv = NULL
    /\ writtenBy = NoneYet /\ sw = NULL /\ ix = NULL

(***************************************************************************)
(* The Riemann solver (GET_FLUXES)                                         *)
(***************************************************************************)
\* the 1-D vector with the x3 sweep relabelled (M3,M2,M1): not a cyclic shift
GasToCons1D_acyclic(dir, g) ==
  [d  |-> g.d,
   Mx |-> IF dir = 1 THEN g.M1 ELSE IF dir = 2 THEN g.M2 ELSE g.M3,
   My |-> IF dir = 1 THEN g.M2 ELSE IF dir = 2 THEN g.M3 ELSE g.M2,
   Mz |-> IF dir = 1 THEN g.M3 ELSE IF dir = 2 THEN g.M1 ELSE g.M1,
   E  |-> g.E,
   By |-> IF ~MHD THEN Zero ELSE IF dir = 1 THEN g.B2c ELSE IF dir = 2 THEN g.B3c ELSE g.B1c,
   Bz |-> IF ~MHD THEN Zero ELSE IF dir = 1 THEN g.B3c ELSE IF dir = 2 THEN g.B1c ELSE g.B2c,
   s  |-> g.s]
\* the 1-D conserved vector of cell g seen along direction dir: the cyclic
\* permutation (Mx,My,Mz) = (M1,M2,M3), (M2,M3,M1), (M3,M1,M2)
GasToCons1D(dir, g) ==
  [d  |-> g.d,
   Mx |-> IF dir = 1 THEN g.M1 ELSE IF dir = 2 THEN g.M2 ELSE g.M3,
   My |-> IF dir = 1 THEN g.M2 ELSE IF dir = 2 THEN g.M3 ELSE g.M1,
   Mz |-> IF dir = 1 THEN g.M3 ELSE IF dir = 2 THEN g.M1 ELSE g.M2,
   E  |-> g.E,
   By |-> IF ~MHD THEN Zero ELSE IF dir = 1 THEN g.B2c ELSE IF dir = 2 THEN g.B3c ELSE g.B1c,
   Bz |-> IF ~MHD THEN Zero ELSE IF dir = 1 THEN g.B3c ELSE IF dir = 2 THEN g.B1c ELSE g.B2c,
   s  |-> g.s]

\* a deterministic solver: a fixed linear function of its three arguments
BaseFlux(Bx, ul, ur) ==
  [d  |-> ul.Mx,
   Mx |-> RAdd(ur.d, ul.Mx),
   My |-> RSub(ul.My, Bx),
   Mz |-> RSub(ur.Mz, ul.Bz),
   E  |-> RAdd(ul.Mx, RSub(ul.E, ur.E)),
   By |-> IF MHD THEN RSub(ul.By, ur.My) ELSE Zero,
   Bz |-> IF MHD THEN RSub(ur.Bz, ul.Mz) ELSE Zero,
   s  |-> RAdd(ul.s, ur.Mx)]

\* GET_FLUXES at interface (k,j,i) of direction dir under solver behaviour sv:
\* the base flux plus whatever the solver adds at that interface
GET_FLUXES(sv, dir, k, j, i, Bx, ul, ur) ==
  LET F == BaseFlux(Bx, ul, ur)
  IN  IF sv.dir = dir /\ sv.k = k /\ sv.j = j /\ sv.i = i
      THEN [F EXCEPT !.d = RAdd(@, sv.dd), !.By = IF MHD THEN RAdd(@, sv.dB) ELSE @]
      ELSE F

Pert(dir, k, j, i, dd, dB) ==
  [dir |-> dir, k |-> k, j |-> j, i |-> i, dd |-> dd, dB |-> dB]

\* the input block holds one state in every cell
IsUniform == \A k \in KK, j \in JJ, i \in II : in.U[k][j][i] = in.U[kl][jl][il]

\* solver behaviours of the predictor pass: the base flux everywhere, or a
\* mass-flux spike at one x1-interface of the first active cell; under
\* gravity a smaller one, which leaves the half-step densities positive
PredPerts ==
  (IF IsUniform /\ MHD THEN {NoPert, Pert(1, ks, js, is + 1, R(8), Zero)} ELSE {NoPert})
    \cup (IF StaticGravPot # NULL THEN {Pert(1, ks, js, is + 1, R(2), Zero)} ELSE {})

(***************************************************************************)
(* integrate_3d_vl: predictor                                              *)
(***************************************************************************)
\* Uhalf = U over the whole block
CopyU ==
  /\ pc = "p0"
  /\ Uhalf' = Arr3(LAMBDA k, j, i : U[k][j][i])
  /\ pc' = "s1"
  /\ writtenBy' = [writtenBy EXCEPT !.UhalfH = Arr3(LAMBDA k, j, i : "copy"),
                       !.UhalfB = Arr3(LAMBDA k, j, i : "copy")]
  /\ UNCHANGED <<gridVars, U, bVars, faceVars, lrVars, fluxVars, emfVars, ccVars,
                 negVars, solver, solverDet, hist>>

\* Step 1: first-order flux in x1 from cell-centred states
Step1 ==
  /\ pc = "s1"
  /\ \E sv \in PredPerts :
       /\ solver' = sv
       /\ solverDet' = (solverDet /\ sv = NoPert)
       /\ x1Flux' = Arr3(LAMBDA k, j, i :
            IF InLoop(k, j, i, kl, ku, jl, ju, il + 1, iu)
            THEN GET_FLUXES(sv, 1, k, j, i, IF MHD THEN B1i[k][j][i] ELSE Zero,
                            GasToCons1D(1, U[k][j][i - 1]), GasToCons1D(1, U[k][j][i]))
            ELSE x1Flux[k][j][i])
  /\ B1_x1Face' = Arr3(LAMBDA k, j, i :
       IF MHD /\ InLoop(k, j, i, kl, ku, jl, ju, il + 1, iu)
       THEN B1i[k][j][i] ELSE B1_x1Face[k][j][i])
  /\ pc' = "s2"
  /\ writtenBy' = [writtenBy EXCEPT
       !.x1Flux = Arr3(LAMBDA k, j, i :
         IF InLoop(k, j, i, kl, ku, jl, ju, il + 1, iu) THEN "Step1" ELSE writtenBy.x1Flux[k][j][i])]
  /\ UNCHANGED <<gridVars, U, bVars, Uhalf, B2_x2Face, B3_x3Face, lrVars, x2Flux,
                 x3Flux, emfVars, ccVars, negVars, hist>>

\* Step 2: first-order flux in x2
Step2 ==
  /\ pc = "s2"
  /\ x2Flux' = Arr3(LAMBDA k, j, i :
       IF InLoop(k, j, i, kl, ku, jl + 1, ju, il, iu)
       THEN GET_FLUXES(solver, 2, k, j, i, IF MHD THEN B2i[k][j][i] ELSE Zero,
                       GasToCons1D(2, U[k][j - 1][i]), GasToCons1D(2, U[k][j][i]))
       ELSE x2Flux[k][j][i])
  /\ B2_x2Face' = Arr3(LAMBDA k, j, i :
       IF MHD /\ InLoop(k, j, i, kl, ku, jl + 1, ju, il, iu)
       THEN B2i[k][j][i] ELSE B2_x2Face[k][j][i])
  /\ pc' = "s3"
  /\ writtenBy' = [writtenBy EXCEPT
       !.x2Flux = Arr3(LAMBDA k, j, i :
         IF InLoop(k, j, i, kl, ku, jl + 1, ju, il, iu) THEN "Step2" ELSE writtenBy.x2Flux[k][j][i])]
  /\ UNCHANGED <<gridVars, U, bVars, Uhalf, B1_x1Face, B3_x3Face, lrVars, x1Flux,
                 x3Flux, emfVars, ccVars, negVars, solver, solverDet, hist>>

\* Step 3: first-order flux in x3
Step3 ==
  /\ pc = "s3"
  /\ x3Flux' = Arr3(LAMBDA k, j, i :
       IF InLoop(k, j, i, kl + 1, ku, jl, ju, il, iu)
       THEN GET_FLUXES(solver, 3, k, j, i, IF MHD THEN B3i[k][j][i] ELSE Zero,
                       GasToCons1D(3, U[k - 1][j][i]), GasToCons1D(3, U[k][j][i]))
       ELSE x3Flux[k][j][i])
  /\ B3_x3Face' = Arr3(LAMBDA k, j, i :
       IF MHD /\ InLoop(k, j, i, kl + 1, ku, jl, ju, il, iu)
       THEN B3i[k][j][i] ELSE B3_x3Face[k][j][i])
  /\ pc' = "s4"
  /\ writtenBy' = [writtenBy EXCEPT
       !.x3Flux = Arr3(LAMBDA k, j, i :
         IF InLoop(k, j, i, kl + 1, ku, jl, ju, il, iu) THEN "Step3" ELSE writtenBy.x3Flux[k][j][i])]
  /\ UNCHANGED <<gridVars, U, bVars, Uhalf, B1_x1Face, B2_x2Face, lrVars, x1Flux,
                 x2Flux, emfVars, ccVars, negVars, solver, solverDet, hist>>

(***************************************************************************)
(* Corner EMFs                                                             *)
(***************************************************************************)
\* if (sel > 0) a; else if (sel < 0) b; else avg
Upwind(sel, a, b, avg) ==
  IF IsStale(sel) THEN Stale
  ELSE IF RPos(sel) THEN a ELSE IF RNegative(sel) THEN b ELSE avg

integrate_emf1_corner(k, j, i) ==
  LET x2m == x2Flux[k - 1][j][i]
      x2c == x2Flux[k][j][i]
      x3m == x3Flux[k][j - 1][i]
      x3c == x3Flux[k][j][i]
      cmm == emf1_cc[k - 1][j - 1][i]
      cmc == emf1_cc[k - 1][j][i]
      ccm == emf1_cc[k][j - 1][i]
      ccc == emf1_cc[k][j][i]
      de1_l3 == Upwind(x2m.d, RSub(x3m.Bz, cmm), RSub(x3c.Bz, cmc),
                  RMul(Half, RSub(RAdd(RSub(x3m.Bz, cmm), x3c.Bz), cmc)))
      de1_r3 == Upwind(x2c.d, RSub(x3m.Bz, ccm), RSub(x3c.Bz, ccc),
                  RMul(Half, RSub(RAdd(RSub(x3m.Bz, ccm), x3c.Bz), ccc)))
      de1_l2 == Upwind(x3m.d, RSub(RNeg(x2m.By), cmm), RSub(RNeg(x2c.By), ccm),
                  RMul(Half, RSub(RSub(RSub(RNeg(x2m.By), cmm), x2c.By), ccm)))
      de1_r2 == Upwind(x3c.d, RSub(RNeg(x2m.By), cmc), RSub(RNeg(x2c.By), ccc),
                  RMul(Half, RSub(RSub(RSub(RNeg(x2m.By), cmc), x2c.By), ccc)))
  IN  RMul(Quarter, RAdd(RSub(RSub(RAdd(x3c.Bz, x3m.Bz), x2c.By), x2m.By),
                         RAdd(RAdd(de1_l2, de1_r2), RAdd(de1_l3, de1_r3))))

integrate_emf2_corner(k, j, i) ==
  LET x1m == x1Flux[k - 1][j][i]
      x1c == x1Flux[k][j][i]
      x3m == x3Flux[k][j][i - 1]
      x3c == x3Flux[k][j][i]
      cmm == emf2_cc[k - 1][j][i - 1]
      cmc == emf2_cc[k - 1][j][i]
      ccm == emf2_cc[k][j][i - 1]
      ccc == emf2_cc[k][j][i]
      de2_l3 == Upwind(x1m.d, RSub(RNeg(x3m.By), cmm), RSub(RNeg(x3c.By), cmc),
                  RMul(Half, RSub(RSub(RSub(RNeg(x3m.By), cmm), x3c.By), cmc)))
      de2_r3 == Upwind(x1c.d, RSub(RNeg(x3m.By), ccm), RSub(RNeg(x3c.By), ccc),
                  RMul(Half, RSub(RSub(RSub(RNeg(x3m.By), ccm), x3c.By), ccc)))
      de2_l1 == Upwind(x3m.d, RSub(x1m.Bz, cmm), RSub(x1c.Bz, ccm),
                  RMul(Half, RSub(RAdd(RSub(x1m.Bz, cmm), x1c.Bz), ccm)))
      \* the averaging branch subtracts emf2_cc[k-1][j][i] twice
      de2_r1 == Upwind(x3c.d, RSub(x1m.Bz, cmc), RSub(x1c.Bz, ccc),
                  RMul(Half, RSub(RAdd(RSub(x1m.Bz, cmc), x1c.Bz), cmc)))
  IN  RMul(Quarter, RAdd(RSub(RSub(RAdd(x1c.Bz, x1m.Bz), x3c.By), x3m.By),
                         RAdd(RAdd(de2_l1, de2_r1), RAdd(de2_l3, de2_r3))))

\* emf3 as the plain mean of the four face EMFs around the edge
integrate_emf3_corner_plain(k, j, i) ==
  RMul(Quarter, RSub(RSub(RAdd(x2Flux[k][j][i - 1].Bz, x2Flux[k][j][i].Bz),
                          x1Flux[k][j - 1][i].By), x1Flux[k][j][i].By))

integrate_emf3_corner(k, j, i) ==
  LET x1m == x1Flux[k][j - 1][i]
      x1c == x1Flux[k][j][i]
      x2m == x2Flux[k][j][i - 1]
      x2c == x2Flux[k][j][i]
      cmm == emf3_cc[k][j - 1][i - 1]
      cmc == emf3_cc[k][j - 1][i]
      ccm == emf3_cc[k][j][i - 1]
      ccc == emf3_cc[k][j][i]
      de3_l2 == Upwind(x1m.d, RSub(x2m.Bz, cmm), RSub(x2c.Bz, cmc),
                  RMul(Half, RSub(RAdd(RSub(x2m.Bz, cmm), x2c.Bz), cmc)))
      de3_r2 == Upwind(x1c.d, RSub(x2m.Bz, ccm), RSub(x2c.Bz, ccc),
                  RMul(Half, RSub(RAdd(RSub(x2m.Bz, ccm), x2c.Bz), ccc)))
      de3_l1 == Upwind(x2m.d, RSub(RNeg(x1m.By), cmm), RSub(RNeg(x1c.By), ccm),
                  RMul(Half, RSub(RSub(RSub(RNeg(x1m.By), cmm), x1c.By), ccm)))
      de3_r1 == Upwind(x2c.d, RSub(RNeg(x1m.By), cmc), RSub(RNeg(x1c.By), ccc),
                  RMul(Half, RSub(RSub(RSub(RNeg(x1m.By), cmc), x1c.By), ccc)))
  IN  RMul(Quarter, RAdd(RSub(RSub(RAdd(x2m.Bz, x2c.Bz), x1m.By), x1c.By),
                         RAdd(RAdd(de3_l1, de3_r1), RAdd(de3_l2, de3_r2))))

\* the corner integrations with emf3 left as it was
CornerEmfs_emf3kept ==
  /\ emf1' = Arr3(LAMBDA k, j, i :
       IF InLoop(k, j, i, kl + 1, ku, jl + 1, ju, il + 1, iu - 1)
       THEN integrate_emf1_corner(k, j, i) ELSE emf1[k][j][i])
  /\ emf2' = Arr3(LAMBDA k, j, i :
       IF InLoop(k, j, i, kl + 1, ku, jl + 1, ju - 1, il + 1, iu)
       THEN integrate_emf2_corner(k, j, i) ELSE emf2[k][j][i])
  /\ emf3' = emf3
  /\ LET step == IF pc = "s4c" THEN "Step4" ELSE "Step11"
     IN  writtenBy' = [writtenBy EXCEPT
           !.emf1 = Arr3(LAMBDA k, j, i :
             IF InLoop(k, j, i, kl + 1, ku, jl + 1, ju, il + 1, iu - 1)
             THEN step ELSE writtenBy.emf1[k][j][i]),
           !.emf2 = Arr3(LAMBDA k, j, i :
             IF InLoop(k, j, i, kl + 1, ku, jl + 1, ju - 1, il + 1, iu)
             THEN step ELSE writtenBy.emf2[k][j][i])]

\* the three corner integrations over their loop ranges
CornerEmfs ==
  /\ emf1' = Arr3(LAMBDA k, j, i :
       IF InLoop(k, j, i, kl + 1, ku, jl + 1, ju, il + 1, iu - 1)
       THEN integrate_emf1_corner(k, j, i) ELSE emf1[k][j][i])
  /\ emf2' = Arr3(LAMBDA k, j, i :
       IF InLoop(k, j, i, kl + 1, ku, jl + 1, ju - 1, il + 1, iu)
       THEN integrate_emf2_corner(k, j, i) ELSE emf2[k][j][i])
  /\ emf3' = Arr3(LAMBDA k, j, i :
       IF InLoop(k, j, i, kl + 1, ku - 1, jl + 1, ju, il + 1, iu)
       THEN integrate_emf3_corner(k, j, i) ELSE emf3[k][j][i])
  /\ LET step == IF pc = "s4c" THEN "Step4" ELSE "Step11"
     IN  writtenBy' = [writtenBy EXCEPT
           !.emf1 = Arr3(LAMBDA k, j, i :
             IF InLoop(k, j, i, kl + 1, ku, jl + 1, ju, il + 1, iu - 1)
             THEN step ELSE writtenBy.emf1[k][j][i]),
           !.emf2 = Arr3(LAMBDA k, j, i :
             IF InLoop(k, j, i, kl + 1, ku, jl + 1, ju - 1, il + 1, iu)
             THEN step ELSE writtenBy.emf2[k][j][i]),
           !.emf3 = Arr3(LAMBDA k, j, i :
             IF InLoop(k, j, i, kl + 1, ku - 1, jl + 1, ju, il + 1, iu)
             THEN step ELSE writtenBy.emf3[k][j][i])]

\* cell-centred EMFs of state g: emf = -(v x B) componentwise
emf_cc(n, g) ==
  IF n = 1 THEN RDiv(RSub(RMul(g.B2c, g.M3), RMul(g.B3c, g.M2)), g.d)
  ELSE IF n = 2 THEN RDiv(RSub(RMul(g.B3c, g.M1), RMul(g.B1c, g.M3)), g.d)
  ELSE RDiv(RSub(RMul(g.B1c, g.M2), RMul(g.B2c, g.M1)), g.d)

\* Step 4, first half: cell-centred EMFs at t^n over the whole block
Step4cc ==
  /\ pc = "s4"
  /\ IF MHD
     THEN /\ emf1_cc' = Arr3(LAMBDA k, j, i : emf_cc(1, U[k][j][i]))
          /\ emf2_cc' = Arr3(LAMBDA k, j, i : emf_cc(2, U[k][j][i]))
          /\ emf3_cc' = Arr3(LAMBDA k, j, i : emf_cc(3, U[k][j][i]))
     ELSE UNCHANGED ccVars
  /\ pc' = "s4c"
  /\ writtenBy' = [writtenBy EXCEPT
       !.cc = Arr3(LAMBDA k, j, i :
         IF MHD THEN "Step4" ELSE writtenBy.cc[k][j][i])]
  /\ UNCHANGED <<gridVars, U, bVars, Uhalf, faceVars, lrVars, fluxVars, emfVars,
                 negVars, solver, solverDet, hist>>

\* Step 4, second half: integrate to the corners
Step4 ==
  /\ pc = "s4c"
  /\ IF MHD THEN CornerEmfs ELSE UNCHANGED <<emfVars, writtenBy>>
  /\ pc' = "s5"
  /\ UNCHANGED <<gridVars, U, bVars, Uhalf, faceVars, lrVars, fluxVars, ccVars,
                 negVars, solver, solverDet, hist>>

(***************************************************************************)
(* Constrained transport and the conservative update                       *)
(***************************************************************************)
\* b + qa*(ea[+1] - ea) - qb*(eb[+1] - eb): the CT update of one face by the
\* circulation of the corner EMFs e1, e2, e3 around it
\* the update of an x1-face with the two circulation terms added
CT1_wrongsign(b, q2, q3, e2, e3, k, j, i) ==
  RAdd(b, RAdd(RMul(q3, RSub(e2[k + 1][j][i], e2[k][j][i])),
               RMul(q2, RSub(e3[k][j + 1][i], e3[k][j][i]))))
CT1(b, q2, q3, e2, e3, k, j, i) ==
  RAdd(b, RSub(RMul(q3, RSub(e2[k + 1][j][i], e2[k][j][i])),
               RMul(q2, RSub(e3[k][j + 1][i], e3[k][j][i]))))
CT2(b, q1, q3, e1, e3, k, j, i) ==
  RAdd(b, RSub(RMul(q1, RSub(e3[k][j][i + 1], e3[k][j][i])),
               RMul(q3, RSub(e1[k + 1][j][i], e1[k][j][i]))))
\* the update of an x3-face with the two circulation terms added
CT3_wrongsign(b, q1, q2, e1, e2, k, j, i) ==
  RAdd(b, RAdd(RMul(q2, RSub(e1[k][j + 1][i], e1[k][j][i])),
               RMul(q1, RSub(e2[k][j][i + 1], e2[k][j][i]))))
CT3(b, q1, q2, e1, e2, k, j, i) ==
  RAdd(b, RSub(RMul(q2, RSub(e1[k][j + 1][i], e1[k][j][i])),
               RMul(q1, RSub(e2[k][j][i + 1], e2[k][j][i]))))

\* the energy updated with the right flux alone
FluxDiff_onesided(g, dir, q, Fl, Fr) == [g EXCEPT !.E = RSub(@, RMul(q, Fr.E))]
\* a cell minus q*(right flux - left flux) of direction dir, the momenta
\* permuted back from the flux's (Mx,My,Mz)
FluxDiff(g, dir, q, Fl, Fr) ==
  LET D(a, b) == RMul(q, RSub(b, a))
      dx == D(Fl.Mx, Fr.Mx)
      dy == D(Fl.My, Fr.My)
      dz == D(Fl.Mz, Fr.Mz)
  IN  [g EXCEPT
        !.d  = RSub(@, D(Fl.d, Fr.d)),
        !.M1 = RSub(@, IF dir = 1 THEN dx ELSE IF dir = 2 THEN dz ELSE dy),
        !.M2 = RSub(@, IF dir = 1 THEN dy ELSE IF dir = 2 THEN dx ELSE dz),
        !.M3 = RSub(@, IF dir = 1 THEN dz ELSE IF dir = 2 THEN dy ELSE dx),
        !.E  = RSub(@, D(Fl.E, Fr.E)),
        !.s  = RSub(@, D(Fl.s, Fr.s))]

\* the update of one cell by the flux differences of all three directions
HydroUpdate(g, q1, q2, q3, k, j, i) ==
  FluxDiff(FluxDiff(FluxDiff(g, 1, q1, x1Flux[k][j][i], x1Flux[k][j][i + 1]),
                    2, q2, x2Flux[k][j][i], x2Flux[k][j + 1][i]),
           3, q3, x3Flux[k][j][i], x3Flux[k + 1][j][i])

\* the static potential at (x1,x2,x3), and the cell-centre position
Phi(x1, x2, x3) ==
  Add3(RMul(StaticGravPot[1], x1), RMul(StaticGravPot[2], x2), RMul(StaticGravPot[3], x3))
cc_pos(n, idx) ==
  IF n = 1 THEN RMul(RAdd(R(idx - is), Half), dx1)
  ELSE IF n = 2 THEN RMul(RAdd(R(idx - js), Half), dx2)
  ELSE RMul(RAdd(R(idx - ks), Half), dx3)

\* the source terms with the momentum taken from the density of the cell itself
GravSource_owndensity(g, rho, q1, q2, q3, k, j, i) ==
  LET x1 == cc_pos(1, i)
      x2 == cc_pos(2, j)
      x3 == cc_pos(3, k)
      phic == Phi(x1, x2, x3)
      r1 == Phi(RAdd(x1, RMul(Half, dx1)), x2, x3)
      l1 == Phi(RSub(x1, RMul(Half, dx1)), x2, x3)
      r2 == Phi(x1, RAdd(x2, RMul(Half, dx2)), x3)
      l2 == Phi(x1, RSub(x2, RMul(Half, dx2)), x3)
      r3 == Phi(x1, x2, RAdd(x3, RMul(Half, dx3)))
      l3 == Phi(x1, x2, RSub(x3, RMul(Half, dx3)))
      W(q, Fl, Fr, l, r) ==
        RMul(q, RAdd(RMul(Fl.d, RSub(l, phic)), RMul(Fr.d, RSub(phic, r))))
  IN  [g EXCEPT
        !.M1 = RSub(@, RMul(RMul(q1, RSub(r1, l1)), g.d)),
        !.M2 = RSub(@, RMul(RMul(q2, RSub(r2, l2)), g.d)),
        !.M3 = RSub(@, RMul(RMul(q3, RSub(r3, l3)), g.d)),
        !.E  = Add3(RAdd(@, W(q1, x1Flux[k][j][i], x1Flux[k][j][i + 1], l1, r1)),
                    W(q2, x2Flux[k][j][i], x2Flux[k][j + 1][i], l2, r2),
                    W(q3, x3Flux[k][j][i], x3Flux[k + 1][j][i], l3, r3))]
\* gravitational source terms over a time q*dx: momentum from density rho,
\* energy from the mass fluxes through the six faces
GravSource(g, rho, q1, q2, q3, k, j, i) ==
  LET x1 == cc_pos(1, i)
      x2 == cc_pos(2, j)
      x3 == cc_pos(3, k)
      phic == Phi(x1, x2, x3)
      r1 == Phi(RAdd(x1, RMul(Half, dx1)), x2, x3)
      l1 == Phi(RSub(x1, RMul(Half, dx1)), x2, x3)
      r2 == Phi(x1, RAdd(x2, RMul(Half, dx2)), x3)
      l2 == Phi(x1, RSub(x2, RMul(Half, dx2)), x3)
      r3 == Phi(x1, x2, RAdd(x3, RMul(Half, dx3)))
      l3 == Phi(x1, x2, RSub(x3, RMul(Half, dx3)))
      W(q, Fl, Fr, l, r) ==
        RMul(q, RAdd(RMul(Fl.d, RSub(l, phic)), RMul(Fr.d, RSub(phic, r))))
  IN  [g EXCEPT
        !.M1 = RSub(@, RMul(RMul(q1, RSub(r1, l1)), rho)),
        !.M2 = RSub(@, RMul(RMul(q2, RSub(r2, l2)), rho)),
        !.M3 = RSub(@, RMul(RMul(q3, RSub(r3, l3)), rho)),
        !.E  = Add3(RAdd(@, W(q1, x1Flux[k][j][i], x1Flux[k][j][i + 1], l1, r1)),
                    W(q2, x2Flux[k][j][i], x2Flux[k][j + 1][i], l2, r2),
                    W(q3, x3Flux[k][j][i], x3Flux[k + 1][j][i], l3, r3))]

\* Step 5: half-step CT of the face buffers, then cell-centred B of Uhalf
Step5 ==
  /\ pc = "s5"
  /\ IF MHD
     THEN LET q1 == RMul(Half, dtodx1)
              q2 == RMul(Half, dtodx2)
              q3 == RMul(Half, dtodx3)
              n1(k, j, i) ==
                IF InLoop(k, j, i, kl + 1, ku - 1, jl + 1, ju - 1, il + 1, iu)
                THEN CT1(B1_x1Face[k][j][i], q2, q3, emf2, emf3, k, j, i)
                ELSE B1_x1Face[k][j][i]
              n2(k, j, i) ==
                IF InLoop(k, j, i, kl + 1, ku - 1, jl + 1, ju, il + 1, iu - 1)
                THEN CT2(B2_x2Face[k][j][i], q1, q3, emf1, emf3, k, j, i)
                ELSE B2_x2Face[k][j][i]
              n3(k, j, i) ==
                IF InLoop(k, j, i, kl + 1, ku, jl + 1, ju - 1, il + 1, iu - 1)
                THEN CT3(B3_x3Face[k][j][i], q1, q2, emf1, emf2, k, j, i)
                ELSE B3_x3Face[k][j][i]
          IN  /\ B1_x1Face' = Arr3(n1)
              /\ B2_x2Face' = Arr3(n2)
              /\ B3_x3Face' = Arr3(n3)
              /\ Uhalf' = Arr3(LAMBDA k, j, i :
                   IF InLoop(k, j, i, kl + 1, ku - 1, jl + 1, ju - 1, il + 1, iu - 1)
                   THEN [Uhalf[k][j][i] EXCEPT
                          !.B1c = RMul(Half, RAdd(n1(k, j, i), n1(k, j, i + 1))),
                          !.B2c = RMul(Half, RAdd(n2(k, j, i), n2(k, j + 1, i))),
                          !.B3c = RMul(Half, RAdd(n3(k, j, i), n3(k + 1, j, i)))]
                   ELSE Uhalf[k][j][i])
     ELSE UNCHANGED <<faceVars, Uhalf>>
  /\ pc' = "s6"
  /\ writtenBy' = [writtenBy EXCEPT
       !.UhalfB = Arr3(LAMBDA k, j, i :
         IF MHD /\ InLoop(k, j, i, kl + 1, ku - 1, jl + 1, ju - 1, il + 1, iu - 1) THEN "Step5" ELSE writtenBy.UhalfB[k][j][i])]
  /\ UNCHANGED <<gridVars, U, bVars, lrVars, fluxVars, emfVars, ccVars,
                 negVars, solver, solverDet, hist>>

\* Steps 6a-6d: half-step update of the hydro variables of Uhalf, then the
\* gravitational source terms
Step6 ==
  /\ pc = "s6"
  /\ LET q1 == RMul(Half, dtodx1)
         q2 == RMul(Half, dtodx2)
         q3 == RMul(Half, dtodx3)
     IN  Uhalf' = Arr3(LAMBDA k, j, i :
           IF InLoop(k, j, i, kl + 1, ku - 1, jl + 1, ju - 1, il + 1, iu - 1)
           THEN LET h == HydroUpdate(Uhalf[k][j][i], q1, q2, q3, k, j, i)
                IN  IF StaticGravPot # NULL
                    THEN GravSource(h, U[k][j][i].d, q1, q2, q3, k, j, i)
                    ELSE h
           ELSE Uhalf[k][j][i])
  /\ pc' = "s7"
  /\ writtenBy' = [writtenBy EXCEPT
       !.UhalfH = Arr3(LAMBDA k, j, i :
         IF InLoop(k, j, i, kl + 1, ku - 1, jl + 1, ju - 1, il + 1, iu - 1) THEN "Step6" ELSE writtenBy.UhalfH[k][j][i])]
  /\ UNCHANGED <<gridVars, U, bVars, faceVars, lrVars, fluxVars, emfVars, ccVars,
                 negVars, solver, solverDet, hist>>

(***************************************************************************)
(* Conserved <-> primitive conversion (convert_var.c)                      *)
(***************************************************************************)
\* Cons1D_to_Prim1D with the normal field left out of the magnetic pressure
Cons1D_to_Prim1D_noBx(pU, pBx) ==
  LET di == RDiv(One, pU.d)
      kin == RMul(RMul(Half, Add3(SQR(pU.Mx), SQR(pU.My), SQR(pU.Mz))), di)
      mag == IF MHD THEN RMul(Half, RAdd(SQR(pU.By), SQR(pU.Bz))) ELSE Zero
      P  == RMul(RSub(RSub(pU.E, kin), mag), Gamma_1)
  IN  [d  |-> pU.d,
       Vx |-> RMul(pU.Mx, di),
       Vy |-> RMul(pU.My, di),
       Vz |-> RMul(pU.Mz, di),
       P  |-> MAX(P, TINY_NUMBER),
       By |-> pU.By,
       Bz |-> pU.Bz,
       r  |-> RMul(pU.s, di)]

Cons1D_to_Prim1D(pU, pBx) ==
  LET di == RDiv(One, pU.d)
      kin == RMul(RMul(Half, Add3(SQR(pU.Mx), SQR(pU.My), SQR(pU.Mz))), di)
      mag == IF MHD THEN RMul(Half, Add3(SQR(pBx), SQR(pU.By), SQR(pU.Bz))) ELSE Zero
      P  == RMul(RSub(RSub(pU.E, kin), mag), Gamma_1)
  IN  [d  |-> pU.d,
       Vx |-> RMul(pU.Mx, di),
       Vy |-> RMul(pU.My, di),
       Vz |-> RMul(pU.Mz, di),
       P  |-> MAX(P, TINY_NUMBER),
       By |-> pU.By,
       Bz |-> pU.Bz,
       r  |-> RMul(pU.s, di)]

\* Prim1D_to_Cons1D with the normal field left out of the magnetic energy
Prim1D_to_Cons1D_noBx(pW, pBx) ==
  LET kin == RMul(RMul(Half, pW.d), Add3(SQR(pW.Vx), SQR(pW.Vy), SQR(pW.Vz)))
      mag == IF MHD THEN RMul(Half, RAdd(SQR(pW.By), SQR(pW.Bz))) ELSE Zero
  IN  [d  |-> pW.d,
       Mx |-> RMul(pW.d, pW.Vx),
       My |-> RMul(pW.d, pW.Vy),
       Mz |-> RMul(pW.d, pW.Vz),
       E  |-> RAdd(RAdd(RDiv(pW.P, Gamma_1), kin), mag),
       By |-> pW.By,
       Bz |-> pW.Bz,
       s  |-> RMul(pW.r, pW.d)]

Prim1D_to_Cons1D(pW, pBx) ==
  LET kin == RMul(RMul(Half, pW.d), Add3(SQR(pW.Vx), SQR(pW.Vy), SQR(pW.Vz)))
      mag == IF MHD THEN RMul(Half, Add3(SQR(pBx), SQR(pW.By), SQR(pW.Bz))) ELSE Zero
  IN  [d  |-> pW.d,
       Mx |-> RMul(pW.d, pW.Vx),
       My |-> RMul(pW.d, pW.Vy),
       Mz |-> RMul(pW.d, pW.Vz),
       E  |-> RAdd(RAdd(RDiv(pW.P, Gamma_1), kin), mag),
       By |-> pW.By,
       Bz |-> pW.Bz,
       s  |-> RMul(pW.r, pW.d)]

(***************************************************************************)
(* Piecewise-linear reconstruction (lr_states_plm.c)                       *)
(***************************************************************************)
\* a Prim1D read as an array of Reals (the cast of line 76) and back
NWAVE == 7
pW(W) == <<W.d, W.Vx, W.Vy, W.Vz, W.P, W.By, W.Bz, W.r>>
AsPrim1D(v) == [d |-> v[1], Vx |-> v[2], Vy |-> v[3], Vz |-> v[4], P |-> v[5],
                By |-> v[6], Bz |-> v[7], r |-> v[8]]
Vec(f(_)) == <<f(1), f(2), f(3), f(4), f(5), f(6), f(7), f(8)>>
Dot(a, b) ==
  RAdd(Add3(RMul(a[1], b[1]), RMul(a[2], b[2]), RMul(a[3], b[3])),
       RAdd(RAdd(RMul(a[4], b[4]), RMul(a[5], b[5])),
            RAdd(RMul(a[6], b[6]), RMul(a[7], b[7]))))

\* the eigensystem of the primitive Jacobian at W: eigenvalues ev, right
\* eigenvectors in the columns of rem, left eigenvectors in the rows of lem.
\* Waves: 1 = Vx - a, 2 = Vy, 3 = Vz, 4 = entropy, 5 = By, 6 = Bz, 7 = Vx + a,
\* with the signal speed a taken as 1
esys_prim(W, Bx) ==
  LET id == RDiv(One, W.d)
      hd == RMul(Half, W.d)
      O == Zero
      I == One
  IN  [ev  |-> <<RSub(W.Vx, One), W.Vx, W.Vx, W.Vx, W.Vx, W.Vx, RAdd(W.Vx, One)>>,
       rem |-> << <<I, O, O, I, O, O, I>>,
                  <<RNeg(id), O, O, O, O, O, id>>,
                  <<O, I, O, O, O, O, O>>,
                  <<O, O, I, O, O, O, O>>,
                  <<I, O, O, O, O, O, I>>,
                  <<O, O, O, O, I, O, O>>,
                  <<O, O, O, O, O, I, O>> >>,
       lem |-> << <<O, RNeg(hd), O, O, Half, O, O>>,
                  <<O, O, I, O, O, O, O>>,
                  <<O, O, O, I, O, O, O>>,
                  <<I, O, O, O, R(-1), O, O>>,
                  <<O, O, O, O, O, I, O>>,
                  <<O, O, O, O, O, O, I>>,
                  <<O, hd, O, O, Half, O, O>> >>]

\* if (x > 0.0) a; else b
IfPos(x, a, b) == IF IsStale(x) THEN Stale ELSE IF RPos(x) THEN a ELSE b

\* Step 7 without its second loop
Between_unclamped(a, b, x) == x
\* Step 7: x = MAX(MIN(a,b),x); x = MIN(MAX(a,b),x)
Between(a, b, x) == MIN(MAX(a, b), MAX(MIN(a, b), x))

\* Step 2: differences of the primitive variables, and the van Leer mean of
\* the left and right ones
VSub(a, b) == Vec(LAMBDA n : RSub(a[n], b[n]))
vanLeer(dWl, dWr) ==
  Vec(LAMBDA n : IfPos(RMul(dWl[n], dWr[n]),
        RDiv(RMul(RMul(R(2), dWl[n]), dWr[n]), RAdd(dWl[n], dWr[n])), Zero))

\* Step 3: project differences along characteristics; advected variables
\* are copied
Proj(lem, v) == Vec(LAMBDA n : IF n <= NWAVE THEN Dot(lem[n], v) ELSE v[n])

\* Step 4 without the van Leer difference
lim_slope_centred(dac, dal, dar, dag) ==
  Vec(LAMBDA n : IfPos(RMul(dal[n], dar[n]),
        RMul(SIGN(dac[n]),
             MIN(RMul(R(2), MIN(fabs(dal[n]), fabs(dar[n]))),
                 RMul(Half, fabs(dac[n])))),
        Zero))

\* Step 4: monotonicity constraints on the characteristic differences
lim_slope(dac, dal, dar, dag) ==
  Vec(LAMBDA n : IfPos(RMul(dal[n], dar[n]),
        RMul(SIGN(dac[n]),
             MIN(RMul(R(2), MIN(fabs(dal[n]), fabs(dar[n]))),
                 MIN(RMul(Half, fabs(dac[n])), fabs(dag[n])))),
        Zero))

\* Step 5: project the limited slopes back to the primitive variables
ProjBack(rem, da) == Vec(LAMBDA n : IF n <= NWAVE THEN Dot(da, rem[n]) ELSE da[n])

\* Step 8 with THREED_VL: Wl is what the pass stores into Wl[i+1], Wr what
\* it stores into Wr[i]
lr_step8(Wlv, Wrv, ev, dtodx) ==
  [Wl |-> Vec(LAMBDA n :
            RSub(Wrv[n], RMul(RMul(RMul(Half, MAX(ev[NWAVE], Zero)), dtodx),
                              RSub(Wrv[n], Wlv[n])))),
   Wr |-> Vec(LAMBDA n :
            RAdd(Wlv[n], RMul(RMul(RNeg(RMul(Half, MIN(ev[1], Zero))), dtodx),
                              RSub(Wrv[n], Wlv[n]))))]

\* Step 7: L/R values, kept between the neighbouring cell-centred values
lr_step7(Wm, Wc, Wp, dWm, ev, dtodx) ==
  lr_step8(Vec(LAMBDA n : Between(Wc[n], Wm[n], RSub(Wc[n], RMul(Half, dWm[n])))),
           Vec(LAMBDA n : Between(Wc[n], Wp[n], RAdd(Wc[n], RMul(Half, dWm[n])))),
           ev, dtodx)

\* Steps 3 to 5 for the differences of Step 2
lr_slopes(Wm, Wc, Wp, es, dWc, dWl, dWr, dWg, dtodx) ==
  lr_step7(Wm, Wc, Wp,
           ProjBack(es.rem, lim_slope(Proj(es.lem, dWc), Proj(es.lem, dWl),
                                      Proj(es.lem, dWr), Proj(es.lem, dWg))),
           es.ev, dtodx)

\* Step 2 for the eigensystem of Step 1
lr_diffs(Wm, Wc, Wp, es, dWl, dWr, dtodx) ==
  lr_slopes(Wm, Wc, Wp, es, VSub(Wp, Wm), dWl, dWr, vanLeer(dWl, dWr), dtodx)

\* one pass of the big loop at cell i with neighbours Wm = W[i-1], Wp = W[i+1]
lr_cell(Wm, Wc, Wp, Bx, dtodx) ==
  lr_diffs(Wm, Wc, Wp, esys_prim(AsPrim1D(Wc), Bx), VSub(Wc, Wm), VSub(Wp, Wc), dtodx)

StaleVec == Vec(LAMBDA n : Stale)

\* lr_states(W, Bxc, dt, dtodx, lo, hi, Wl, Wr): the entries Wl[i] and Wr[i]
\* after the call; the loop runs over lo-1 .. hi+1 and leaves other entries
\* as they were
lr_states_Wl(Ws, Bs, dtodx, lo, hi, i) ==
  IF lo - 1 <= i - 1 /\ i - 1 <= hi + 1
  THEN lr_cell(Ws[i - 2], Ws[i - 1], Ws[i], Bs[i - 1], dtodx).Wl
  ELSE StaleVec
lr_states_Wr(Ws, Bs, dtodx, lo, hi, i) ==
  IF lo - 1 <= i /\ i <= hi + 1
  THEN lr_cell(Ws[i - 1], Ws[i], Ws[i + 1], Bs[i], dtodx).Wr
  ELSE StaleVec

(***************************************************************************)
(* integrate_3d_vl: reconstruction and corrector                           *)
(***************************************************************************)
\* cell n of the strip of direction dir through (k,j,i)
Strip(dir, k, j, i, n) ==
  IF dir = 1 THEN Uhalf[k][j][n] ELSE IF dir = 2 THEN Uhalf[k][n][i] ELSE Uhalf[n][j][i]

\* Bxc[n] and W[n] of that strip, filled over the whole extent of the block
Bxc(dir, k, j, i, n) ==
  LET g == Strip(dir, k, j, i, n)
  IN  IF ~MHD THEN Zero
      ELSE IF dir = 1 THEN g.B1c ELSE IF dir = 2 THEN g.B2c ELSE g.B3c
W(dir, k, j, i, n) ==
  pW(Cons1D_to_Prim1D(GasToCons1D(dir, Strip(dir, k, j, i, n)), Bxc(dir, k, j, i, n)))

\* the entries of the 1-D work arrays W, Bxc, Wl, Wr: nmax of them
StripIdx == II \cup JJ \cup KK
\* Ul[n] and Ur[n] of the strip of direction dir through (k,j,i): lr_states
\* with dt = dtodx = 0 over lo = b+1 .. hi = t-1, converted back with Bxc[n]
StripUl(dir, k, j, i, n, lo, hi) ==
  Prim1D_to_Cons1D(
    AsPrim1D(lr_states_Wl([m \in StripIdx |-> W(dir, k, j, i, m)],
                          [m \in StripIdx |-> Bxc(dir, k, j, i, m)], Zero, lo, hi, n)),
    Bxc(dir, k, j, i, n))
StripUr(dir, k, j, i, n, lo, hi) ==
  Prim1D_to_Cons1D(
    AsPrim1D(lr_states_Wr([m \in StripIdx |-> W(dir, k, j, i, m)],
                          [m \in StripIdx |-> Bxc(dir, k, j, i, m)], Zero, lo, hi, n)),
    Bxc(dir, k, j, i, n))

\* Step 7a: L/R states at x1-interfaces from Uhalf
Step7a ==
  /\ pc = "s7"
  /\ Ul_x1Face' = Arr3(LAMBDA k, j, i :
       IF InLoop(k, j, i, kb, kt, jb, jt, ib + 1, it)
       THEN StripUl(1, k, j, i, i, ib + 1, it - 1) ELSE Ul_x1Face[k][j][i])
  /\ Ur_x1Face' = Arr3(LAMBDA k, j, i :
       IF InLoop(k, j, i, kb, kt, jb, jt, ib + 1, it)
       THEN StripUr(1, k, j, i, i, ib + 1, it - 1) ELSE Ur_x1Face[k][j][i])
  /\ pc' = "s7b"
  /\ UNCHANGED <<gridVars, U, bVars, Uhalf, faceVars, Ul_x2Face, Ur_x2Face,
                 Ul_x3Face, Ur_x3Face, fluxVars, emfVars, ccVars, negVars,
                 solver, solverDet, hist, writtenBy>>

\* Step 7b: L/R states at x2-interfaces
Step7b ==
  /\ pc = "s7b"
  /\ Ul_x2Face' = Arr3(LAMBDA k, j, i :
       IF InLoop(k, j, i, kb, kt, jb + 1, jt, ib, it)
       THEN StripUl(2, k, j, i, j, jb + 1, jt - 1) ELSE Ul_x2Face[k][j][i])
  /\ Ur_x2Face' = Arr3(LAMBDA k, j, i :
       IF InLoop(k, j, i, kb, kt, jb + 1, jt, ib, it)
       THEN StripUr(2, k, j, i, j, jb + 1, jt - 1) ELSE Ur_x2Face[k][j][i])
  /\ pc' = "s7c"
  /\ UNCHANGED <<gridVars, U, bVars, Uhalf, faceVars, Ul_x1Face, Ur_x1Face,
                 Ul_x3Face, Ur_x3Face, fluxVars, emfVars, ccVars, negVars,
                 solver, solverDet, hist, writtenBy>>

\* Step 7c: L/R states at x3-interfaces
Step7c ==
  /\ pc = "s7c"
  /\ Ul_x3Face' = Arr3(LAMBDA k, j, i :
       IF InLoop(k, j, i, kb + 1, kt, jb, jt, ib, it)
       THEN StripUl(3, k, j, i, k, kb + 1, kt - 1) ELSE Ul_x3Face[k][j][i])
  /\ Ur_x3Face' = Arr3(LAMBDA k, j, i :
       IF InLoop(k, j, i, kb + 1, kt, jb, jt, ib, it)
       THEN StripUr(3, k, j, i, k, kb + 1, kt - 1) ELSE Ur_x3Face[k][j][i])
  /\ pc' = "s9"
  /\ UNCHANGED <<gridVars, U, bVars, Uhalf, faceVars, Ul_x1Face, Ur_x1Face,
                 Ul_x2Face, Ur_x2Face, fluxVars, emfVars, ccVars, negVars,
                 solver, solverDet, hist, writtenBy>>

\* solver behaviours of the corrector pass: the base flux everywhere; a spike
\* at the x1-interface right or left of the first active cell that empties
\* it; a change of the field flux alone next to it; a mass flux that leaves
\* it almost empty; and a spike at its lower x3-interface, which empties the
\* ghost cell below it
CorrPerts ==
  {NoPert,
   Pert(1, ks, js, is + 1, R(8), One),
   Pert(1, ks, js, is, R(-8), One),
   Pert(1, ks, js + 1, is + 1, Zero, One)}
  \cup (IF IsUniform THEN {Pert(1, ks, js, is + 1, <<127, 64>>, Zero)} ELSE {})
  \cup (IF ~IsUniform /\ MHD THEN {Pert(3, ks, js, is, R(8), Zero)} ELSE {})

\* Steps 9a-9c: second-order fluxes from the stored L/R states
Step9 ==
  /\ pc = "s9"
  /\ \E sv \in CorrPerts :
       /\ solver' = sv
       /\ solverDet' = (solverDet /\ sv = NoPert)
       /\ x1Flux' = Arr3(LAMBDA k, j, i :
            IF InLoop(k, j, i, kb, kt, jb, jt, ib + 1, it)
            THEN GET_FLUXES(sv, 1, k, j, i, IF MHD THEN B1_x1Face[k][j][i] ELSE Zero,
                            Ul_x1Face[k][j][i], Ur_x1Face[k][j][i])
            ELSE x1Flux[k][j][i])
       /\ x2Flux' = Arr3(LAMBDA k, j, i :
            IF InLoop(k, j, i, kb, kt, jb + 1, jt, ib, it)
            THEN GET_FLUXES(sv, 2, k, j, i, IF MHD THEN B2_x2Face[k][j][i] ELSE Zero,
                            Ul_x2Face[k][j][i], Ur_x2Face[k][j][i])
            ELSE x2Flux[k][j][i])
       /\ x3Flux' = Arr3(LAMBDA k, j, i :
            IF InLoop(k, j, i, kb + 1, kt, jb, jt, ib, it)
            THEN GET_FLUXES(sv, 3, k, j, i, IF MHD THEN B3_x3Face[k][j][i] ELSE Zero,
                            Ul_x3Face[k][j][i], Ur_x3Face[k][j][i])
            ELSE x3Flux[k][j][i])
  /\ pc' = "s10"
  /\ writtenBy' = [writtenBy EXCEPT
       !.x1Flux = Arr3(LAMBDA k, j, i :
         IF InLoop(k, j, i, kb, kt, jb, jt, ib + 1, it) THEN "Step9" ELSE writtenBy.x1Flux[k][j][i]),
       !.x2Flux = Arr3(LAMBDA k, j, i :
         IF InLoop(k, j, i, kb, kt, jb + 1, jt, ib, it) THEN "Step9" ELSE writtenBy.x2Flux[k][j][i]),
       !.x3Flux = Arr3(LAMBDA k, j, i :
         IF InLoop(k, j, i, kb + 1, kt, jb, jt, ib, it) THEN "Step9" ELSE writtenBy.x3Flux[k][j][i])]
  /\ UNCHANGED <<gridVars, U, bVars, Uhalf, faceVars, lrVars, emfVars, ccVars,
                 negVars, hist>>

\* Step 10: cell-centred EMFs at the half step
Step10 ==
  /\ pc = "s10"
  /\ IF MHD
     THEN /\ emf1_cc' = Arr3(LAMBDA k, j, i :
               IF InLoop(k, j, i, kb, kt, jb, jt, ib, it)
               THEN emf_cc(1, Uhalf[k][j][i]) ELSE emf1_cc[k][j][i])
          /\ emf2_cc' = Arr3(LAMBDA k, j, i :
               IF InLoop(k, j, i, kb, kt, jb, jt, ib, it)
               THEN emf_cc(2, Uhalf[k][j][i]) ELSE emf2_cc[k][j][i])
          /\ emf3_cc' = Arr3(LAMBDA k, j, i :
               IF InLoop(k, j, i, kb, kt, jb, jt, ib, it)
               THEN emf_cc(3, Uhalf[k][j][i]) ELSE emf3_cc[k][j][i])
     ELSE UNCHANGED ccVars
  /\ pc' = "s11c"
  /\ writtenBy' = [writtenBy EXCEPT
       !.cc = Arr3(LAMBDA k, j, i :
         IF MHD /\ InLoop(k, j, i, kb, kt, jb, jt, ib, it) THEN "Step10" ELSE writtenBy.cc[k][j][i])]
  /\ UNCHANGED <<gridVars, U, bVars, Uhalf, faceVars, lrVars, fluxVars, emfVars,
                 negVars, solver, solverDet, hist>>

\* Step 11, first half: integrate the EMFs to the corners
Step11c ==
  /\ pc = "s11c"
  /\ IF MHD THEN CornerEmfs ELSE UNCHANGED <<emfVars, writtenBy>>
  /\ pc' = "s11"
  /\ UNCHANGED <<gridVars, U, bVars, Uhalf, faceVars, lrVars, fluxVars, ccVars,
                 negVars, solver, solverDet, hist>>

\* Step 11, second half: full-step CT of the interface fields of the grid
Step11 ==
  /\ pc = "s11"
  /\ IF MHD
     THEN /\ B1i' = Arr3(LAMBDA k, j, i :
               IF InLoop(k, j, i, kb + 1, kt - 1, jb + 1, jt - 1, ib + 1, it)
               THEN CT1(B1i[k][j][i], dtodx2, dtodx3, emf2, emf3, k, j, i)
               ELSE B1i[k][j][i])
          /\ B2i' = Arr3(LAMBDA k, j, i :
               IF InLoop(k, j, i, kb + 1, kt - 1, jb + 1, jt, ib + 1, it - 1)
               THEN CT2(B2i[k][j][i], dtodx1, dtodx3, emf1, emf3, k, j, i)
               ELSE B2i[k][j][i])
          /\ B3i' = Arr3(LAMBDA k, j, i :
               IF InLoop(k, j, i, kb + 1, kt, jb + 1, jt - 1, ib + 1, it - 1)
               THEN CT3(B3i[k][j][i], dtodx1, dtodx2, emf1, emf2, k, j, i)
               ELSE B3i[k][j][i])
     ELSE UNCHANGED bVars
  /\ pc' = "s12"
  /\ UNCHANGED <<gridVars, U, Uhalf, faceVars, lrVars, fluxVars, emfVars, ccVars,
                 negVars, solver, solverDet, hist, writtenBy>>

\* Step 12: gravitational source terms for the full step
Step12 ==
  /\ pc = "s12"
  /\ U' = Arr3(LAMBDA k, j, i :
       IF StaticGravPot # NULL
          /\ InLoop(k, j, i, kl + 1, ku - 1, jl + 1, ju - 1, il + 1, iu - 1)
       THEN GravSource(U[k][j][i], Uhalf[k][j][i].d, dtodx1, dtodx2, dtodx3, k, j, i)
       ELSE U[k][j][i])
  /\ U12' = U'
  /\ pc' = "s13"
  /\ UNCHANGED <<gridVars, bVars, Uhalf, faceVars, lrVars, fluxVars, emfVars, ccVars,
                 negVars, solver, solverDet, in, acct, cfg, plm, cv, writtenBy,
                 sw, ix>>

\* the amount q*F of each conserved hydro quantity, the flux's (Mx,My,Mz)
\* permuted to the cell's (M1,M2,M3)
Amt(dir, q, F) ==
  [d  |-> RMul(q, F.d),
   M1 |-> RMul(q, IF dir = 1 THEN F.Mx ELSE IF dir = 2 THEN F.Mz ELSE F.My),
   M2 |-> RMul(q, IF dir = 1 THEN F.My ELSE IF dir = 2 THEN F.Mx ELSE F.Mz),
   M3 |-> RMul(q, IF dir = 1 THEN F.Mz ELSE IF dir = 2 THEN F.My ELSE F.Mx),
   E  |-> RMul(q, F.E),
   s  |-> RMul(q, F.s)]
AmtNeg(a) == [d |-> RNeg(a.d), M1 |-> RNeg(a.M1), M2 |-> RNeg(a.M2), M3 |-> RNeg(a.M3),
              E |-> RNeg(a.E), s |-> RNeg(a.s)]
AmtAdd(a, b) == [d |-> RAdd(a.d, b.d), M1 |-> RAdd(a.M1, b.M1), M2 |-> RAdd(a.M2, b.M2),
                 M3 |-> RAdd(a.M3, b.M3), E |-> RAdd(a.E, b.E), s |-> RAdd(a.s, b.s)]
\* the amounts first_order_correction moves: the scalars are not among them
NoS(a) == [a EXCEPT !.s = Zero]

\* Steps 13a-13c: update the cell-centred hydro variables with the fluxes
Step13 ==
  /\ pc = "s13"
  /\ U' = Arr3(LAMBDA k, j, i :
       IF InLoop(k, j, i, kb + 1, kt - 1, jb + 1, jt - 1, ib + 1, it - 1)
       THEN HydroUpdate(U[k][j][i], dtodx1, dtodx2, dtodx3, k, j, i)
       ELSE U[k][j][i])
  /\ acct' = Arr3(LAMBDA k, j, i :
       IF InLoop(k, j, i, kb + 1, kt - 1, jb + 1, jt - 1, ib + 1, it - 1)
       THEN <<Amt(1, dtodx1, x1Flux[k][j][i]), AmtNeg(Amt(1, dtodx1, x1Flux[k][j][i + 1])),
              Amt(2, dtodx2, x2Flux[k][j][i]), AmtNeg(Amt(2, dtodx2, x2Flux[k][j + 1][i])),
              Amt(3, dtodx3, x3Flux[k][j][i]), AmtNeg(Amt(3, dtodx3, x3Flux[k + 1][j][i]))>>
       ELSE acct[k][j][i])
  /\ pc' = "f_detect"
  /\ UNCHANGED <<gridVars, bVars, Uhalf, faceVars, lrVars, fluxVars, emfVars, ccVars,
                 negVars, solver, solverDet, in, U12, cfg, plm, cv, writtenBy,
                 sw, ix>>

(***************************************************************************)
(* first_order_correction                                                  *)
(***************************************************************************)
correct_hydro_x1 == 1
correct_hydro_x2 == 2
correct_hydro_x3 == 4
correct_mhd_x1 == 8
correct_mhd_x2 == 16
correct_mhd_x3 == 32

\* x & f # 0 and x |= f on a char, f a single flag; c guards the assignment
HasFlag(x, f) == (x \div f) % 2 = 1
SetFlag(x, f, c) == IF c /\ ~HasFlag(x, f) THEN x + f ELSE x

\* the flags left as they were
memset_Ineg_skipped(k, j, i) == Ineg[k][j][i]
\* what memset(Ineg[0][0], 0, ...) leaves in Ineg[k][j][i]
memset_Ineg(k, j, i) == 0

\* the cells the detection loop visits and finds with density <= 0
NegCell(k, j, i) ==
  /\ InLoop(k, j, i, kb + 1, kt - 1, jb + 1, jt - 1, ib + 1, it - 1)
  /\ RLe0(U[k][j][i].d)

\* the flags the detection loop leaves in Ineg[k][j][i]: all of them for a
\* negative cell, and those of the right interfaces of its negative neighbours
DetectFlags(k, j, i) ==
  LET c == NegCell(k, j, i)
      c1 == c \/ (i > 0 /\ NegCell(k, j, i - 1))
      c2 == c \/ (j > 0 /\ NegCell(k, j - 1, i))
      c3 == c \/ (k > 0 /\ NegCell(k - 1, j, i))
      f1 == SetFlag(SetFlag(memset_Ineg(k, j, i), correct_hydro_x1, c1), correct_mhd_x1, c1)
      f2 == SetFlag(SetFlag(f1, correct_hydro_x2, c2), correct_mhd_x2, c2)
  IN  SetFlag(SetFlag(f2, correct_hydro_x3, c3), correct_mhd_x3, c3)

\* Step 13d, detection: clear the flags, flag the interfaces of every cell
\* with density <= 0; return at once if there is none
Detect ==
  /\ pc = "f_detect"
  /\ Ineg' = Arr3(DetectFlags)
  /\ negcount' = Cardinality({c \in KK \X JJ \X II : NegCell(c[1], c[2], c[3])})
  /\ pc' = IF negcount' > 0 THEN "f_prop" ELSE "s15"
  /\ UNCHANGED <<gridVars, U, bVars, Uhalf, faceVars, lrVars, fluxVars, emfVars,
                 ccVars, perr, solver, solverDet, hist, writtenBy>>

\* the assignments of the propagation loop: <<h, m, dk, dj, di>> is
\* "if (Ineg[k][j][i] & h) Ineg[k+dk][j+dj][i+di] |= m"
\* the table without the assignments "additional via" the upper EMFs
PropTable_lower ==
  {<<1, 8, -1, 0, 0>>, <<1, 32, 0, 0, -1>>, <<1, 8, 0, -1, 0>>, <<1, 16, 0, 0, -1>>,
   <<2, 16, -1, 0, 0>>, <<2, 32, 0, -1, 0>>, <<2, 8, 0, -1, 0>>, <<2, 16, 0, 0, -1>>,
   <<4, 16, -1, 0, 0>>, <<4, 32, 0, -1, 0>>, <<4, 8, -1, 0, 0>>, <<4, 32, 0, 0, -1>>}
PropTable ==
  {<<1, 8, -1, 0, 0>>, <<1, 32, 0, 0, -1>>, <<1, 8, 1, 0, 0>>, <<1, 32, 1, 0, 0>>,
   <<1, 32, 1, 0, -1>>, <<1, 8, 0, -1, 0>>, <<1, 16, 0, 0, -1>>, <<1, 8, 0, 1, 0>>,
   <<1, 16, 0, 1, 0>>, <<1, 16, 0, 1, -1>>,
   <<2, 16, -1, 0, 0>>, <<2, 32, 0, -1, 0>>, <<2, 16, 1, 0, 0>>, <<2, 32, 1, 0, 0>>,
   <<2, 32, 1, -1, 0>>, <<2, 8, 0, -1, 0>>, <<2, 16, 0, 0, -1>>, <<2, 8, 0, 0, 1>>,
   <<2, 16, 0, 0, 1>>, <<2, 8, 0, -1, 1>>,
   <<4, 16, -1, 0, 0>>, <<4, 32, 0, -1, 0>>, <<4, 16, 0, 1, 0>>, <<4, 32, 0, 1, 0>>,
   <<4, 16, -1, 1, 0>>, <<4, 8, -1, 0, 0>>, <<4, 32, 0, 0, -1>>, <<4, 8, 0, 0, 1>>,
   <<4, 32, 0, 0, 1>>, <<4, 8, -1, 0, 1>>}

\* a propagation loop with the block for correct_hydro_x1 only
PropSets_x1only(m, K, J, I) ==
  \E e \in PropTable :
    /\ e[1] = correct_hydro_x1 /\ e[2] = m
    /\ InLoop(K - e[3], J - e[4], I - e[5], kb + 1, kt, jb + 1, jt, ib + 1, it)
    /\ HasFlag(Ineg[K - e[3]][J - e[4]][I - e[5]], e[1])

\* some pass (k,j,i) of the propagation loop sets flag m of Ineg[K][J][I]
PropSets(m, K, J, I) ==
  \E e \in PropTable :
    /\ e[2] = m
    /\ InLoop(K - e[3], J - e[4], I - e[5], kb + 1, kt, jb + 1, jt, ib + 1, it)
    /\ HasFlag(Ineg[K - e[3]][J - e[4]][I - e[5]], e[1])

\* MHD only: flag the interface fields that a changed flux reaches through
\* the corner EMFs
Propagate ==
  /\ pc = "f_prop"
  /\ IF MHD
     THEN Ineg' = Arr3(LAMBDA k, j, i :
            SetFlag(SetFlag(SetFlag(Ineg[k][j][i],
                                    correct_mhd_x1, PropSets(correct_mhd_x1, k, j, i)),
                            correct_mhd_x2, PropSets(correct_mhd_x2, k, j, i)),
                    correct_mhd_x3, PropSets(correct_mhd_x3, k, j, i)))
     ELSE UNCHANGED Ineg
  /\ pc' = "f_undo"
  /\ UNCHANGED <<gridVars, U, bVars, Uhalf, faceVars, lrVars, fluxVars, emfVars,
                 ccVars, negcount, perr, solver, solverDet, hist, writtenBy>>

\* the six amounts taken whether the interface is flagged or not
FluxAmts_all(k, j, i) ==
  LET A(dir, q, F, kk, jj, ii) == NoS(Amt(dir, q, F[kk][jj][ii]))
  IN  <<A(1, dtodx1, x1Flux, k, j, i),
        AmtNeg(A(1, dtodx1, x1Flux, k, j, i + 1)),
        A(2, dtodx2, x2Flux, k, j, i),
        AmtNeg(A(2, dtodx2, x2Flux, k, j + 1, i)),
        A(3, dtodx3, x3Flux, k, j, i),
        AmtNeg(A(3, dtodx3, x3Flux, k + 1, j, i))>>
\* what the re-application loop adds to cell (k,j,i) through each of its six
\* interfaces, <<l1, r1, l2, r2, l3, r3>>: +dtodx*F through a flagged left
\* interface, -dtodx*F through a flagged right one, of d, M1, M2, M3 and E
FluxAmts(k, j, i) ==
  LET A(dir, q, F, kk, jj, ii, f) ==
        IF HasFlag(Ineg[kk][jj][ii], f) THEN NoS(Amt(dir, q, F[kk][jj][ii])) ELSE ZeroAmt
  IN  <<A(1, dtodx1, x1Flux, k, j, i, correct_hydro_x1),
        AmtNeg(A(1, dtodx1, x1Flux, k, j, i + 1, correct_hydro_x1)),
        A(2, dtodx2, x2Flux, k, j, i, correct_hydro_x2),
        AmtNeg(A(2, dtodx2, x2Flux, k, j + 1, i, correct_hydro_x2)),
        A(3, dtodx3, x3Flux, k, j, i, correct_hydro_x3),
        AmtNeg(A(3, dtodx3, x3Flux, k + 1, j, i, correct_hydro_x3))>>

\* an undo loop that reverts the left interfaces only
UndoAmts_leftonly(k, j, i) ==
  LET a == FluxAmts(k, j, i)
  IN  <<AmtNeg(a[1]), ZeroAmt, AmtNeg(a[3]), ZeroAmt, AmtNeg(a[5]), ZeroAmt>>
\* the undo loop subtracts where the re-application loop adds
UndoAmts(k, j, i) ==
  LET a == FluxAmts(k, j, i)
  IN  <<AmtNeg(a[1]), AmtNeg(a[2]), AmtNeg(a[3]), AmtNeg(a[4]), AmtNeg(a[5]), AmtNeg(a[6])>>

\* cell g after six amounts a, and the running account after them
GasPlus(g, a) ==
  LET t == AmtAdd(AmtAdd(AmtAdd(a[1], a[2]), AmtAdd(a[3], a[4])), AmtAdd(a[5], a[6]))
  IN  [g EXCEPT !.d = RAdd(@, t.d), !.M1 = RAdd(@, t.M1), !.M2 = RAdd(@, t.M2),
                !.M3 = RAdd(@, t.M3), !.E = RAdd(@, t.E), !.s = RAdd(@, t.s)]
AcctPlus(c, a) ==
  <<AmtAdd(c[1], a[1]), AmtAdd(c[2], a[2]), AmtAdd(c[3], a[3]),
    AmtAdd(c[4], a[4]), AmtAdd(c[5], a[5]), AmtAdd(c[6], a[6])>>

\* the cells whose hydro variables the correction reverts and re-applies, and
\* the interfaces whose flux and field it reverts, recomputes and re-applies
InCorrCells(k, j, i) == InLoop(k, j, i, kb + 2, kt - 2, jb + 2, jt - 2, ib + 2, it - 2)
InCorrFaces(k, j, i) == InLoop(k, j, i, kb + 2, kt - 1, jb + 2, jt - 1, ib + 2, it - 1)

\* the interface fields with the full-step CT update reverted (sgn = -1) or
\* applied (sgn = 1) where flagged
\* the x1-field with the CT update applied whatever the sign asked for
CorrB1_applied(sgn, k, j, i) ==
  IF InCorrFaces(k, j, i) /\ HasFlag(Ineg[k][j][i], correct_mhd_x1)
  THEN CT1(B1i[k][j][i], dtodx2, dtodx3, emf2, emf3, k, j, i)
  ELSE B1i[k][j][i]
CorrB1(sgn, k, j, i) ==
  IF InCorrFaces(k, j, i) /\ HasFlag(Ineg[k][j][i], correct_mhd_x1)
  THEN CT1(B1i[k][j][i], RMul(R(sgn), dtodx2), RMul(R(sgn), dtodx3), emf2, emf3, k, j, i)
  ELSE B1i[k][j][i]
CorrB2(sgn, k, j, i) ==
  IF InCorrFaces(k, j, i) /\ HasFlag(Ineg[k][j][i], correct_mhd_x2)
  THEN CT2(B2i[k][j][i], RMul(R(sgn), dtodx1), RMul(R(sgn), dtodx3), emf1, emf3, k, j, i)
  ELSE B2i[k][j][i]
CorrB3(sgn, k, j, i) ==
  IF InCorrFaces(k, j, i) /\ HasFlag(Ineg[k][j][i], correct_mhd_x3)
  THEN CT3(B3i[k][j][i], RMul(R(sgn), dtodx1), RMul(R(sgn), dtodx2), emf1, emf2, k, j, i)
  ELSE B3i[k][j][i]

\* undo Steps 13a-c at flagged hydro interfaces and Step 11 at flagged fields
Undo ==
  /\ pc = "f_undo"
  /\ U' = Arr3(LAMBDA k, j, i :
       IF InCorrCells(k, j, i) THEN GasPlus(U[k][j][i], UndoAmts(k, j, i)) ELSE U[k][j][i])
  /\ acct' = Arr3(LAMBDA k, j, i :
       IF InCorrCells(k, j, i) THEN AcctPlus(acct[k][j][i], UndoAmts(k, j, i))
       ELSE acct[k][j][i])
  /\ IF MHD
     THEN /\ B1i' = Arr3(LAMBDA k, j, i : CorrB1(-1, k, j, i))
          /\ B2i' = Arr3(LAMBDA k, j, i : CorrB2(-1, k, j, i))
          /\ B3i' = Arr3(LAMBDA k, j, i : CorrB3(-1, k, j, i))
     ELSE UNCHANGED bVars
  /\ pc' = "f_reflux"
  /\ UNCHANGED <<gridVars, Uhalf, faceVars, lrVars, fluxVars, emfVars, ccVars,
                 negVars, solver, solverDet, in, U12, cfg, plm, cv, writtenBy,
                 sw, ix>>

\* solver behaviours of the first-order pass
RefluxPerts == {NoPert, Pert(1, ks, js, is + 1, R(8), Zero)}

\* a stored L/R state with d, Mx, My, Mz, E overwritten from cell g of Uhalf;
\* By, Bz and the scalar keep what Step 7 stored
FirstOrderState(dir, old, g) ==
  LET u == GasToCons1D(dir, g)
  IN  [old EXCEPT !.d = u.d, !.Mx = u.Mx, !.My = u.My, !.Mz = u.Mz, !.E = u.E]

\* interface (k,j,i) of direction dir is one the first-order pass recomputes
Refluxed(dir, k, j, i) ==
  /\ InCorrFaces(k, j, i)
  /\ HasFlag(Ineg[k][j][i], IF dir = 1 THEN correct_hydro_x1
                            ELSE IF dir = 2 THEN correct_hydro_x2 ELSE correct_hydro_x3)

\* first-order L/R states and fluxes at the flagged hydro interfaces
Reflux ==
  /\ pc = "f_reflux"
  /\ \E sv \in RefluxPerts :
       LET l1(k, j, i) == IF Refluxed(1, k, j, i)
                          THEN FirstOrderState(1, Ul_x1Face[k][j][i], Uhalf[k][j][i - 1])
                          ELSE Ul_x1Face[k][j][i]
           r1(k, j, i) == IF Refluxed(1, k, j, i)
                          THEN FirstOrderState(1, Ur_x1Face[k][j][i], Uhalf[k][j][i])
                          ELSE Ur_x1Face[k][j][i]
           l2(k, j, i) == IF Refluxed(2, k, j, i)
                          THEN FirstOrderState(2, Ul_x2Face[k][j][i], Uhalf[k][j - 1][i])
                          ELSE Ul_x2Face[k][j][i]
           r2(k, j, i) == IF Refluxed(2, k, j, i)
                          THEN FirstOrderState(2, Ur_x2Face[k][j][i], Uhalf[k][j][i])
                          ELSE Ur_x2Face[k][j][i]
           l3(k, j, i) == IF Refluxed(3, k, j, i)
                          THEN FirstOrderState(3, Ul_x3Face[k][j][i], Uhalf[k - 1][j][i])
                          ELSE Ul_x3Face[k][j][i]
           r3(k, j, i) == IF Refluxed(3, k, j, i)
                          THEN FirstOrderState(3, Ur_x3Face[k][j][i], Uhalf[k][j][i])
                          ELSE Ur_x3Face[k][j][i]
       IN  /\ solver' = sv
           /\ solverDet' = (solverDet /\ sv = NoPert)
           /\ Ul_x1Face' = Arr3(l1) /\ Ur_x1Face' = Arr3(r1)
           /\ Ul_x2Face' = Arr3(l2) /\ Ur_x2Face' = Arr3(r2)
           /\ Ul_x3Face' = Arr3(l3) /\ Ur_x3Face' = Arr3(r3)
           /\ x1Flux' = Arr3(LAMBDA k, j, i :
                IF Refluxed(1, k, j, i)
                THEN GET_FLUXES(sv, 1, k, j, i, IF MHD THEN B1_x1Face[k][j][i] ELSE Zero,
                                l1(k, j, i), r1(k, j, i))
                ELSE x1Flux[k][j][i])
           /\ x2Flux' = Arr3(LAMBDA k, j, i :
                IF Refluxed(2, k, j, i)
                THEN GET_FLUXES(sv, 2, k, j, i, IF MHD THEN B2_x2Face[k][j][i] ELSE Zero,
                                l2(k, j, i), r2(k, j, i))
                ELSE x2Flux[k][j][i])
           /\ x3Flux' = Arr3(LAMBDA k, j, i :
                IF Refluxed(3, k, j, i)
                THEN GET_FLUXES(sv, 3, k, j, i, IF MHD THEN B3_x3Face[k][j][i] ELSE Zero,
                                l3(k, j, i), r3(k, j, i))
                ELSE x3Flux[k][j][i])
  /\ pc' = "f_emf"
  /\ writtenBy' = [writtenBy EXCEPT
       !.x1Flux = Arr3(LAMBDA k, j, i :
         IF Refluxed(1, k, j, i) THEN "Reflux" ELSE writtenBy.x1Flux[k][j][i]),
       !.x2Flux = Arr3(LAMBDA k, j, i :
         IF Refluxed(2, k, j, i) THEN "Reflux" ELSE writtenBy.x2Flux[k][j][i]),
       !.x3Flux = Arr3(LAMBDA k, j, i :
         IF Refluxed(3, k, j, i) THEN "Reflux" ELSE writtenBy.x3Flux[k][j][i])]
  /\ UNCHANGED <<gridVars, U, bVars, Uhalf, faceVars, emfVars, ccVars, negVars, hist>>

\* the corner EMFs the correction recomputes: those next to a flagged field
Reemf1(k, j, i) ==
  /\ InLoop(k, j, i, kb + 2, kt, jb + 2, jt, ib + 2, it - 1)
  /\ \/ HasFlag(Ineg[k][j][i], correct_mhd_x2)
     \/ HasFlag(Ineg[k - 1][j][i], correct_mhd_x2)
     \/ HasFlag(Ineg[k][j][i], correct_mhd_x3)
     \/ HasFlag(Ineg[k][j - 1][i], correct_mhd_x3)
Reemf2(k, j, i) ==
  /\ InLoop(k, j, i, kb + 2, kt, jb + 2, jt - 1, ib + 2, it)
  /\ \/ HasFlag(Ineg[k][j][i], correct_mhd_x1)
     \/ HasFlag(Ineg[k - 1][j][i], correct_mhd_x1)
     \/ HasFlag(Ineg[k][j][i], correct_mhd_x3)
     \/ HasFlag(Ineg[k][j][i - 1], correct_mhd_x3)
Reemf3(k, j, i) ==
  /\ InLoop(k, j, i, kb + 2, kt - 1, jb + 2, jt, ib + 2, it)
  /\ \/ HasFlag(Ineg[k][j][i], correct_mhd_x1)
     \/ HasFlag(Ineg[k][j - 1][i], correct_mhd_x1)
     \/ HasFlag(Ineg[k][j][i], correct_mhd_x2)
     \/ HasFlag(Ineg[k][j][i - 1], correct_mhd_x2)

\* MHD only: recompute the corner EMFs from the corrected fluxes
Recorner ==
  /\ pc = "f_emf"
  /\ IF MHD
     THEN /\ emf1' = Arr3(LAMBDA k, j, i :
               IF Reemf1(k, j, i) THEN integrate_emf1_corner(k, j, i) ELSE emf1[k][j][i])
          /\ emf2' = Arr3(LAMBDA k, j, i :
               IF Reemf2(k, j, i) THEN integrate_emf2_corner(k, j, i) ELSE emf2[k][j][i])
          /\ emf3' = Arr3(LAMBDA k, j, i :
               IF Reemf3(k, j, i) THEN integrate_emf3_corner(k, j, i) ELSE emf3[k][j][i])
     ELSE UNCHANGED emfVars
  /\ pc' = "f_redo"
  /\ writtenBy' = [writtenBy EXCEPT
       !.emf1 = Arr3(LAMBDA k, j, i :
         IF MHD /\ Reemf1(k, j, i) THEN "Recorner" ELSE writtenBy.emf1[k][j][i]),
       !.emf2 = Arr3(LAMBDA k, j, i :
         IF MHD /\ Reemf2(k, j, i) THEN "Recorner" ELSE writtenBy.emf2[k][j][i]),
       !.emf3 = Arr3(LAMBDA k, j, i :
         IF MHD /\ Reemf3(k, j, i) THEN "Recorner" ELSE writtenBy.emf3[k][j][i])]
  /\ UNCHANGED <<gridVars, U, bVars, Uhalf, faceVars, lrVars, fluxVars, ccVars,
                 negVars, solver, solverDet, hist>>

\* re-apply the CT update at flagged fields and the first-order fluxes at
\* flagged hydro interfaces
Redo ==
  /\ pc = "f_redo"
  /\ IF MHD
     THEN /\ B1i' = Arr3(LAMBDA k, j, i : CorrB1(1, k, j, i))
          /\ B2i' = Arr3(LAMBDA k, j, i : CorrB2(1, k, j, i))
          /\ B3i' = Arr3(LAMBDA k, j, i : CorrB3(1, k, j, i))
     ELSE UNCHANGED bVars
  /\ U' = Arr3(LAMBDA k, j, i :
       IF InCorrCells(k, j, i) THEN GasPlus(U[k][j][i], FluxAmts(k, j, i)) ELSE U[k][j][i])
  /\ acct' = Arr3(LAMBDA k, j, i :
       IF InCorrCells(k, j, i) THEN AcctPlus(acct[k][j][i], FluxAmts(k, j, i))
       ELSE acct[k][j][i])
  /\ pc' = "f_check"
  /\ UNCHANGED <<gridVars, Uhalf, faceVars, lrVars, fluxVars, emfVars, ccVars,
                 negVars, solver, solverDet, in, U12, cfg, plm, cv, writtenBy,
                 sw, ix>>

\* the final check finding nothing
StillNegative_none == {}
\* the active cells the final check reports, with their global indices
StillNegative ==
  {c \in KK \X JJ \X II : Active(c[1], c[2], c[3]) /\ RLe0(U[c[1]][c[2]][c[3]].d)}

\* the final check: report every active cell with density <= 0 and abort if
\* there is one (ath_error does not return)
FinalCheck ==
  /\ pc = "f_check"
  /\ perr' = {<<disp[3] + c[1], disp[2] + c[2], disp[1] + c[3], U[c[1]][c[2]][c[3]].d>> :
                c \in StillNegative}
  /\ negcount' = Cardinality(StillNegative)
  /\ pc' = IF negcount' > 0 THEN "aborted" ELSE "s15"
  /\ UNCHANGED <<gridVars, U, bVars, Uhalf, faceVars, lrVars, fluxVars, emfVars,
                 ccVars, Ineg, solver, solverDet, hist, writtenBy>>

\* the cell keeping the cell-centred field it had
CellCentredB_kept(k, j, i) == U[k][j][i]
\* cell (k,j,i) with its cell-centred field set to the average of the
\* interface fields around it
CellCentredB(k, j, i) ==
  [U[k][j][i] EXCEPT
    !.B1c = RMul(Half, RAdd(B1i[k][j][i], B1i[k][j][i + 1])),
    !.B2c = RMul(Half, RAdd(B2i[k][j][i], B2i[k][j + 1][i])),
    !.B3c = RMul(Half, RAdd(B3i[k][j][i], B3i[k + 1][j][i]))]

\* Step 15: cell-centred field = average of the updated interface fields
Step15 ==
  /\ pc = "s15"
  /\ U' = Arr3(LAMBDA k, j, i :
       IF MHD /\ InLoop(k, j, i, kb + 1, kt - 1, jb + 1, jt - 1, ib + 1, it - 1)
       THEN CellCentredB(k, j, i) ELSE U[k][j][i])
  /\ pc' = "done"
  /\ UNCHANGED <<gridVars, bVars, Uhalf, faceVars, lrVars, fluxVars, emfVars, ccVars,
                 negVars, solver, solverDet, hist, writtenBy>>

Next ==
  \/ CopyU \/ Step1 \/ Step2 \/ Step3 \/ Step4cc \/ Step4 \/ Step5 \/ Step6
  \/ Step7a \/ Step7b \/ Step7c
  \/ Step9 \/ Step10 \/ Step11c \/ Step11 \/ Step12 \/ Step13
  \/ Detect \/ Propagate \/ Undo \/ Reflux \/ Recorner \/ Redo \/ FinalCheck
  \/ Step15

Spec == Init /\ [][Next]_vars

(***************************************************************************)
(* Building and initialising the integrator in every configuration         *)
(***************************************************************************)
MaxGhost == 8

\* the block and the scratch arrays do not exist yet
NoArrays ==
  /\ StaticGravPot = NULL
  /\ dt = Zero /\ dx1 = One /\ dx2 = One /\ dx3 = One /\ disp = <<0, 0, 0>>
  /\ U = NULL /\ B1i = NULL /\ B2i = NULL /\ B3i = NULL /\ Uhalf = NULL
  /\ B1_x1Face = NULL /\ B2_x2Face = NULL /\ B3_x3Face = NULL
  /\ Ul_x1Face = NULL /\ Ur_x1Face = NULL /\ Ul_x2Face = NULL
  /\ Ur_x2Face = NULL /\ Ul_x3Face = NULL /\ Ur_x3Face = NULL
  /\ x1Flux = NULL /\ x2Flux = NULL /\ x3Flux = NULL
  /\ emf1 = NULL /\ emf2 = NULL /\ emf3 = NULL
  /\ emf1_cc = NULL /\ emf2_cc = NULL /\ emf3_cc = NULL
  /\ Ineg = NULL /\ negcount = 0 /\ perr = {}
  /\ solver = NoPert /\ solverDet = TRUE
  /\ in = NULL /\ U12 = NULL /\ acct = NULL /\ writtenBy = NULL /\ sw = NULL /\ ix = NULL

NoBlock == MHD = FALSE /\ NoArrays

InitCfg ==
  /\ pc = "cfg0"
  /\ \E order \in 1 .. 3, mhd \in BOOLEAN, hcorr \in BOOLEAN, ng \in 0 .. MaxGhost :
       cfg = [order |-> order, mhd |-> mhd, hcorr |-> hcorr, nghost |-> ng,
              stage |-> "source", minghost |-> 0]
  /\ plm = NULL
  /\ cv = NULL
  /\ NoBlock

\* compiling integrate_3d_vl.c: the #error under #ifdef H_CORRECTION
Compile ==
  /\ pc = "cfg0"
  /\ cfg' = [cfg EXCEPT !.stage = IF cfg.hcorr THEN "refused" ELSE "compiled"]
  /\ pc' = IF cfg.hcorr THEN "cfg_refused" ELSE "cfg1"
  /\ UNCHANGED <<gridVars, U, bVars, Uhalf, faceVars, lrVars, fluxVars, emfVars,
                 ccVars, negVars, solver, solverDet, in, U12, acct, plm, cv, writtenBy,
                 sw, ix>>

\* integrate_init_3d up to the ghost-zone test; ath_error ends the run
integrate_init_3d ==
  /\ pc = "cfg1"
  /\ LET m == minghost(cfg.order, cfg.mhd, cfg.hcorr)
     IN  cfg' = [cfg EXCEPT !.minghost = m,
                            !.stage = IF cfg.nghost < m THEN "aborted" ELSE "ready"]
  /\ pc' = "cfg2"
  /\ UNCHANGED <<gridVars, U, bVars, Uhalf, faceVars, lrVars, fluxVars, emfVars,
                 ccVars, negVars, solver, solverDet, in, U12, acct, plm, cv, writtenBy,
                 sw, ix>>

NextCfg == Compile \/ integrate_init_3d
SpecCfg == InitCfg /\ [][NextCfg]_vars

(***************************************************************************)
(* lr_states on its own, called as integrate_3d_vl calls it                *)
(***************************************************************************)
PlmVals == 3
PlmN == 1

\* primitive vectors a cell of the strip may hold
PlmCell(v) ==
  <<R(1 + v * v), R(((2 * v) % 3) - 1), R(v % 2), R(-v), R(1 + ((3 * v) % 4)),
    R((v % 3) - 1), R(2 - v), Norm(1 + ((2 * v) % 3), 1 + v)>>

\* lr_states(W, Bxc, dt, dtodx, il, iu, Wl, Wr) reads W[il-2 .. iu+2]
plm_il == sOrder
plm_iu == plm_il + PlmN - 1
PlmIdx == 0 .. plm_iu + 2

InitPlm ==
  /\ pc = "plm0"
  /\ \E w \in [PlmIdx -> 0 .. PlmVals - 1] :
       plm = [W   |-> [i \in PlmIdx |-> PlmCell(w[i])],
              Bxc |-> [i \in PlmIdx |-> One],
              Wl  |-> [i \in PlmIdx |-> StaleVec],
              Wr  |-> [i \in PlmIdx |-> StaleVec]]
  /\ cfg = [order |-> sOrder, mhd |-> FALSE, hcorr |-> FALSE, nghost |-> nghost,
            stage |-> "ready", minghost |-> minghost(sOrder, FALSE, FALSE)]
  /\ cv = NULL
  /\ NoBlock

\* lr_states(W, Bxc, 0.0, 0.0, il, iu, Wl, Wr)
LrStates ==
  /\ pc = "plm0"
  /\ plm' = [plm EXCEPT
       !.Wl = [i \in PlmIdx |->
                 IF plm_il <= i /\ i <= plm_iu + 2
                 THEN lr_states_Wl(plm.W, plm.Bxc, Zero, plm_il, plm_iu, i)
                 ELSE plm.Wl[i]],
       !.Wr = [i \in PlmIdx |->
                 IF plm_il - 1 <= i /\ i <= plm_iu + 1
                 THEN lr_states_Wr(plm.W, plm.Bxc, Zero, plm_il, plm_iu, i)
                 ELSE plm.Wr[i]]]
  /\ pc' = "plm1"
  /\ UNCHANGED <<gridVars, U, bVars, Uhalf, faceVars, lrVars, fluxVars, emfVars,
                 ccVars, negVars, solver, solverDet, in, U12, acct, cfg, cv, writtenBy,
                 sw, ix>>

NextPlm == LrStates
SpecPlm == InitPlm /\ [][NextPlm]_vars

(***************************************************************************)
(* The functions of convert_var.c on their own                             *)
(***************************************************************************)
\* Gamma = Gamma_1 + 1, the adiabatic index
Gamma == <<3, 2>>

\* sqrt(x): the non-negative real whose square is x, a non-number for x < 0
sqrt(x) == IF x[2] = 0 \/ RNegative(x) THEN [sq |-> NaN] ELSE [sq |-> x]

\* the integer root of n by bisection, -1 when n is no square
RECURSIVE RootIn(_, _, _)
RootIn(n, lo, hi) ==
  IF lo > hi THEN -1
  ELSE LET m == (lo + hi) \div 2
       IN  IF m * m = n THEN m
           ELSE IF m * m < n THEN RootIn(n, m + 1, hi) ELSE RootIn(n, lo, m - 1)
IntRoot(n) == RootIn(n, 0, IF n < 46340 THEN n ELSE 46340)
IsSquare(x) ==
  \E v \in {x} : v[2] # 0 /\ v[1] >= 0 /\ IntRoot(v[1]) >= 0 /\ IntRoot(v[2]) >= 0
\* a root read back as a Real; one that is not rational is no value of the model
Irrational == <<2, 0>>
AsReal(r) ==
  LET v == CHOOSE w \in {r.sq} : TRUE
  IN  IF v[2] = 0 THEN v
      ELSE IF IsSquare(v) THEN <<IntRoot(v[1]), IntRoot(v[2])>>
      ELSE Irrational

Cons_to_Prim(pGas) ==
  LET di == RDiv(One, pGas.d)
      kin == RMul(RMul(Half, Add3(SQR(pGas.M1), SQR(pGas.M2), SQR(pGas.M3))), di)
      mag == IF MHD THEN RMul(Half, Add3(SQR(pGas.B1c), SQR(pGas.B2c), SQR(pGas.B3c)))
             ELSE Zero
      P  == RMul(RSub(RSub(pGas.E, kin), mag), Gamma_1)
  IN  [d   |-> pGas.d,
       V1  |-> RMul(pGas.M1, di),
       V2  |-> RMul(pGas.M2, di),
       V3  |-> RMul(pGas.M3, di),
       P   |-> MAX(P, TINY_NUMBER),
       B1c |-> pGas.B1c,
       B2c |-> pGas.B2c,
       B3c |-> pGas.B3c,
       r   |-> RMul(pGas.s, di)]

\* the discriminant with the normal Alfven speed in place of the transverse one
cfast_disc_casq(asq, ctsq, casq) ==
  RAdd(SQR(RSub(RAdd(casq, ctsq), asq)), RMul(R(4), RMul(asq, casq)))

\* the discriminant under the inner root of cfast
cfast_disc(asq, ctsq, casq) ==
  RAdd(SQR(RSub(RAdd(casq, ctsq), asq)), RMul(R(4), RMul(asq, ctsq)))

cfast_mhd(asq, ctsq, casq) ==
  sqrt(RMul(Half, RAdd(Add3(asq, ctsq, casq), AsReal(sqrt(cfast_disc(asq, ctsq, casq))))))

cfast_asq(pU, pBx) ==
  LET pb == IF MHD THEN RMul(Half, Add3(SQR(pBx), SQR(pU.By), SQR(pU.Bz))) ELSE Zero
      p  == RMul(Gamma_1,
                 RSub(RSub(pU.E, pb),
                      RDiv(RMul(Half, Add3(SQR(pU.Mx), SQR(pU.My), SQR(pU.Mz))), pU.d)))
  IN  RDiv(RMul(Gamma, p), pU.d)

cfast(pU, pBx) ==
  IF ~MHD THEN sqrt(cfast_asq(pU, pBx))
  ELSE cfast_mhd(cfast_asq(pU, pBx),
                 RDiv(RAdd(SQR(pU.By), SQR(pU.Bz)), pU.d),
                 RDiv(SQR(pBx), pU.d))

\* the states handed to the functions: densities, momenta or velocities,
\* fields and scalars from small sets, energies and pressures that fall
\* below, on and above the floor TINY_NUMBER
ConvE == 6
ConvB == 2
EVal(n) ==
  IF n = 0 THEN R(-2) ELSE IF n = 1 THEN Zero ELSE IF n = 2 THEN <<1, 1024>>
  ELSE IF n = 3 THEN <<1, 512>> ELSE R(3 * n - 6)
PVal(n) ==
  IF n = 0 THEN <<1, 2048>> ELSE IF n = 1 THEN <<1, 1024>> ELSE IF n = 2 THEN <<3, 1024>>
  ELSE Norm(n, 5 - (n % 2) * 4)
ConvD == {One, R(2)}
ConvM == {Zero, R(2), R(-1)}
ConvCons ==
  {[d |-> d, Mx |-> mx, My |-> my, Mz |-> Zero, E |-> EVal(e),
    By |-> R(by), Bz |-> R(bz), s |-> R(3)] :
     d \in ConvD, mx \in ConvM, my \in {Zero, One}, e \in 0 .. ConvE,
     by \in 0 .. ConvB, bz \in {0, 1}}
ConvPrim ==
  {[d |-> d, Vx |-> vx, Vy |-> vy, Vz |-> Zero, P |-> PVal(e),
    By |-> R(by), Bz |-> R(bz), r |-> R(3)] :
     d \in ConvD, vx \in ConvM, vy \in {Zero, One}, e \in 0 .. ConvE,
     by \in 0 .. ConvB, bz \in {0, 1}}
ConvCalls == {"Cons_to_Prim", "Cons1D_to_Prim1D", "Prim1D_to_Cons1D", "cfast"}

\* the Gas whose first direction carries the Cons1D u and the normal field bx
GasOf(u, bx) ==
  [d |-> u.d, M1 |-> u.Mx, M2 |-> u.My, M3 |-> u.Mz, E |-> u.E,
   B1c |-> bx, B2c |-> u.By, B3c |-> u.Bz, s |-> u.s]

\* cfast is called on the states whose inner root is rational
CfastInput(u, bx) ==
  ~MHD \/ IsSquare(cfast_disc(cfast_asq(u, bx),
                              RDiv(RAdd(SQR(u.By), SQR(u.Bz)), u.d),
                              RDiv(SQR(bx), u.d)))

InitConv ==
  /\ pc = "conv0"
  /\ MHD \in BOOLEAN
  /\ \E call \in ConvCalls, bx \in 0 .. ConvB :
       \/ /\ call # "Prim1D_to_Cons1D"
          /\ \E u \in ConvCons :
               \* cfast squares the pressure twice: it is given whole energies
               /\ call = "cfast" => u.E[2] = 1
               /\ cv = [call |-> call, Bx |-> R(bx), U |-> u, W |-> NULL,
                        back |-> NULL, prim |-> NULL, cf |-> NULL]
       \/ /\ call = "Prim1D_to_Cons1D"
          /\ \E w \in ConvPrim :
               cv = [call |-> call, Bx |-> R(bx), U |-> NULL, W |-> w,
                     back |-> NULL, prim |-> NULL, cf |-> NULL]
  /\ cfg = [order |-> sOrder, mhd |-> MHD, hcorr |-> FALSE, nghost |-> nghost,
            stage |-> "ready", minghost |-> minghost(sOrder, MHD, FALSE)]
  /\ plm = NULL
  /\ NoArrays

convRest == <<gridVars, U, bVars, Uhalf, faceVars, lrVars, fluxVars, emfVars,
              ccVars, negVars, solver, solverDet, in, U12, acct, cfg, plm, writtenBy,
                 sw, ix>>

\* W = Cons_to_Prim(&U[k][j][i])
CallCons_to_Prim ==
  /\ pc = "conv0" /\ cv.call = "Cons_to_Prim"
  /\ cv' = [cv EXCEPT !.prim = Cons_to_Prim(GasOf(cv.U, cv.Bx))]
  /\ pc' = "conv2"
  /\ UNCHANGED convRest

\* Cons1D_to_Prim1D(&U, &W, &Bx), first or on the way back
CallCons1D_to_Prim1D ==
  /\ \/ /\ pc = "conv0" /\ cv.call = "Cons1D_to_Prim1D"
        /\ cv' = [cv EXCEPT !.W = Cons1D_to_Prim1D(cv.U, cv.Bx)]
        /\ pc' = "conv1"
     \/ /\ pc = "conv1" /\ cv.call = "Prim1D_to_Cons1D"
        /\ cv' = [cv EXCEPT !.back = Cons1D_to_Prim1D(cv.U, cv.Bx)]
        /\ pc' = "conv2"
  /\ UNCHANGED convRest

\* Prim1D_to_Cons1D(&U, &W, &Bx), first or on the way back
CallPrim1D_to_Cons1D ==
  /\ \/ /\ pc = "conv0" /\ cv.call = "Prim1D_to_Cons1D"
        /\ cv' = [cv EXCEPT !.U = Prim1D_to_Cons1D(cv.W, cv.Bx)]
        /\ pc' = "conv1"
     \/ /\ pc = "conv1" /\ cv.call = "Cons1D_to_Prim1D"
        /\ cv' = [cv EXCEPT !.back = Prim1D_to_Cons1D(cv.W, cv.Bx)]
        /\ pc' = "conv2"
  /\ UNCHANGED convRest

\* cfast(&U, &Bx)
Callcfast ==
  /\ pc = "conv0" /\ cv.call = "cfast"
  /\ CfastInput(cv.U, cv.Bx)
  /\ cv' = [cv EXCEPT !.cf = cfast(cv.U, cv.Bx)]
  /\ pc' = "conv2"
  /\ UNCHANGED convRest

NextConv ==
  \/ CallCons_to_Prim
  \/ CallCons1D_to_Prim1D
  \/ CallPrim1D_to_Cons1D
  \/ Callcfast
SpecConv == InitConv /\ [][NextConv]_vars

(***************************************************************************)
(* The flags of first_order_correction on their own                        *)
(***************************************************************************)
\* the cells the detection loop visits
DetectCells ==
  {c \in KK \X JJ \X II :
     InLoop(c[1], c[2], c[3], kb + 1, kt - 1, jb + 1, jt - 1, ib + 1, it - 1)}

\* a cell and the cells next to it, one step up in some of the directions
Near(c) ==
  {<<c[1] + e[1], c[2] + e[2], c[3] + e[3]>> :
     e \in {<<0, 0, 0>>, <<0, 0, 1>>, <<0, 1, 0>>, <<1, 0, 0>>, <<1, 1, 1>>}}

\* Steps 13a-c left density <= 0 in one or two cells of the block
InitFlags ==
  /\ pc = "f_detect"
  /\ MHD \in BOOLEAN
  /\ \E a \in DetectCells : \E b \in Near(a) \cap DetectCells :
       U = Arr3(LAMBDA k, j, i :
             [GasInit(0, MHD, k, j, i) EXCEPT
                !.d = IF <<k, j, i>> \in {a, b} THEN R(-1) ELSE @])
  /\ Ineg = Arr3(LAMBDA k, j, i : -1)
  /\ negcount = 0 /\ perr = {}
  /\ StaticGravPot = NULL
  /\ dt = Half /\ dx1 = One /\ dx2 = One /\ dx3 = One /\ disp = <<0, 0, 0>>
  /\ B1i = NULL /\ B2i = NULL /\ B3i = NULL /\ Uhalf = NULL
  /\ B1_x1Face = NULL /\ B2_x2Face = NULL /\ B3_x3Face = NULL
  /\ Ul_x1Face = NULL /\ Ur_x1Face = NULL /\ Ul_x2Face = NULL
  /\ Ur_x2Face = NULL /\ Ul_x3Face = NULL /\ Ur_x3Face = NULL
  /\ x1Flux = NULL /\ x2Flux = NULL /\ x3Flux = NULL
  /\ emf1 = NULL /\ emf2 = NULL /\ emf3 = NULL
  /\ emf1_cc = NULL /\ emf2_cc = NULL /\ emf3_cc = NULL
  /\ solver = NoPert /\ solverDet = TRUE
  /\ in = NULL /\ U12 = NULL /\ acct = NULL /\ writtenBy = NULL /\ sw = NULL /\ ix = NULL
  /\ cfg = [order |-> sOrder, mhd |-> MHD, hcorr |-> FALSE, nghost |-> nghost,
            stage |-> "ready", minghost |-> minghost(sOrder, MHD, FALSE)]
  /\ plm = NULL
  /\ cv = NULL

\* the flags are complete once the propagation loop has run
FlagsDone == pc = "f_undo"

NextFlags ==
  \/ Detect
  \/ Propagate
SpecFlags == InitFlags /\ [][NextFlags]_vars

(***************************************************************************)
(* The corner-EMF assemblers on their own                                  *)
(***************************************************************************)
\* the mass flux of the direction-n interface at (k,j,i): sel[n][0] where
\* k+j+i is even, sel[n][1] where it is odd; SelPair(v) is the v-th of the
\* nine pairs of signs
SelPair(v) == [p \in 0 .. 1 |-> IF p = 0 THEN (v \div 3) - 1 ELSE (v % 3) - 1]
EmfFlux(sel, n, k, j, i) ==
  [d  |-> R(sel[n][(k + j + i) % 2]),
   Mx |-> Zero, My |-> Zero, Mz |-> Zero, E |-> Zero,
   By |-> R(((k + 2 * j + 3 * i + n) % 5) - 2),
   Bz |-> R(((3 * k + j + 2 * i + 2 * n) % 5) - 2),
   s  |-> Zero]
EmfCc(n, k, j, i) == R(((2 * k + 3 * j + 5 * i + n) % 7) - 3)

\* the fluxes and cell-centred EMFs are in place, the corner EMFs are due
InitEmf ==
  /\ pc = "s4c"
  /\ MHD = TRUE
  \* every pair of directions meets every pair of sign pairs
  /\ \E x \in 0 .. 8, y \in 0 .. 8 :
       LET sel == <<SelPair(x), SelPair(y), SelPair((x + y) % 9)>>
       IN
       /\ x1Flux = Arr3(LAMBDA k, j, i : EmfFlux(sel, 1, k, j, i))
       /\ x2Flux = Arr3(LAMBDA k, j, i : EmfFlux(sel, 2, k, j, i))
       /\ x3Flux = Arr3(LAMBDA k, j, i : EmfFlux(sel, 3, k, j, i))
  /\ emf1_cc = Arr3(LAMBDA k, j, i : EmfCc(1, k, j, i))
  /\ emf2_cc = Arr3(LAMBDA k, j, i : EmfCc(2, k, j, i))
  /\ emf3_cc = Arr3(LAMBDA k, j, i : EmfCc(3, k, j, i))
  /\ emf1 = Arr3(LAMBDA k, j, i : Stale)
  /\ emf2 = Arr3(LAMBDA k, j, i : Stale)
  /\ emf3 = Arr3(LAMBDA k, j, i : Stale)
  /\ StaticGravPot = NULL
  /\ dt = Half /\ dx1 = One /\ dx2 = One /\ dx3 = One /\ disp = <<0, 0, 0>>
  /\ U = NULL /\ B1i = NULL /\ B2i = NULL /\ B3i = NULL /\ Uhalf = NULL
  /\ B1_x1Face = NULL /\ B2_x2Face = NULL /\ B3_x3Face = NULL
  /\ Ul_x1Face = NULL /\ Ur_x1Face = NULL /\ Ul_x2Face = NULL
  /\ Ur_x2Face = NULL /\ Ul_x3Face = NULL /\ Ur_x3Face = NULL
  /\ Ineg = NULL /\ negcount = 0 /\ perr = {}
  /\ solver = NoPert /\ solverDet = TRUE
  /\ in = NULL /\ U12 = NULL /\ acct = NULL /\ writtenBy = NoneYet /\ sw = NULL /\ ix = NULL
  /\ cfg = [order |-> sOrder, mhd |-> TRUE, hcorr |-> FALSE, nghost |-> nghost,
            stage |-> "ready", minghost |-> minghost(sOrder, TRUE, FALSE)]
  /\ plm = NULL
  /\ cv = NULL

NextEmf == Step4
SpecEmf == InitEmf /\ [][NextEmf]_vars

(***************************************************************************)
(* The three sweeps of one phase, taken row by row                         *)
(***************************************************************************)
\* rows of each sweep that are followed
MaxRows == 1
Phases == {"predictor", "reconstruct", "corrector"}

\* a cell of row s of the sweep along dir, and that row's cell number n
RowCell(dir, s) ==
  IF dir = 1 THEN <<ks, js + s, is>>
  ELSE IF dir = 2 THEN <<ks + s, js, is>> ELSE <<ks, js, is + s>>
RowAt(dir, s, n) ==
  LET c == RowCell(dir, s)
  IN  IF dir = 1 THEN <<c[1], c[2], n>>
      ELSE IF dir = 2 THEN <<c[1], n, c[3]>> ELSE <<n, c[2], c[3]>>
Along(dir, k, j, i) == IF dir = 1 THEN i ELSE IF dir = 2 THEN j ELSE k
InRow(dir, s, k, j, i) == RowAt(dir, s, Along(dir, k, j, i)) = <<k, j, i>>
\* the loop bounds along dir: the whole block, and the corrector's range
LoAll(dir) == IF dir = 1 THEN il ELSE IF dir = 2 THEN jl ELSE kl
HiAll(dir) == IF dir = 1 THEN iu ELSE IF dir = 2 THEN ju ELSE ku
LoCorr(dir) == IF dir = 1 THEN ib ELSE IF dir = 2 THEN jb ELSE kb
HiCorr(dir) == IF dir = 1 THEN it ELSE IF dir = 2 THEN jt ELSE kt

\* array A with f(n) stored in the cells lo .. hi of row s of direction dir
RowWrite(A, on, dir, s, lo, hi, f(_)) ==
  Arr3(LAMBDA k, j, i :
    IF on /\ InRow(dir, s, k, j, i) /\ lo <= Along(dir, k, j, i) /\ Along(dir, k, j, i) <= hi
    THEN f(Along(dir, k, j, i)) ELSE A[k][j][i])

\* the 1-D work arrays Ul, Ur, W, Bxc are static: every sweep fills the same
\* ones.  Entries lo .. hi of such an array after a loop storing f(n)
RowFill(a, lo, hi, f(_)) ==
  [n \in StripIdx |-> IF lo <= n /\ n <= hi THEN f(n) ELSE a[n]]

InitRows ==
  /\ pc = "rows"
  /\ MHD \in BOOLEAN
  /\ StaticGravPot = NULL
  /\ dt = Half /\ dx1 = One /\ dx2 = One /\ dx3 = One /\ disp = <<0, 0, 0>>
  /\ \E p \in 0 .. 1, ph \in Phases :
       /\ U = Arr3(LAMBDA k, j, i : GasInit(p, MHD, k, j, i))
       /\ B1i = Arr3(LAMBDA k, j, i : IF MHD THEN Face1(p, k, j, i) ELSE Zero)
       /\ B2i = Arr3(LAMBDA k, j, i : IF MHD THEN Face2(p, k, j, i) ELSE Zero)
       /\ B3i = Arr3(LAMBDA k, j, i : IF MHD THEN Face3(p, k, j, i) ELSE Zero)
       /\ Uhalf = Arr3(LAMBDA k, j, i :
            IF ph = "predictor" THEN StaleGas ELSE GasInit(p, MHD, k, j, i))
       /\ B1_x1Face = Arr3(LAMBDA k, j, i :
            IF MHD /\ ph # "predictor" THEN Face1(p, k, j, i) ELSE Stale)
       /\ B2_x2Face = Arr3(LAMBDA k, j, i :
            IF MHD /\ ph # "predictor" THEN Face2(p, k, j, i) ELSE Stale)
       /\ B3_x3Face = Arr3(LAMBDA k, j, i :
            IF MHD /\ ph # "predictor" THEN Face3(p, k, j, i) ELSE Stale)
       /\ Ul_x1Face = Arr3(LAMBDA k, j, i :
            IF ph = "corrector" THEN GasToCons1D(1, GasInit(p, MHD, k, j, i - 1))
            ELSE StaleCons1D)
       /\ Ur_x1Face = Arr3(LAMBDA k, j, i :
            IF ph = "corrector" THEN GasToCons1D(1, GasInit(p, MHD, k, j, i))
            ELSE StaleCons1D)
       /\ Ul_x2Face = Arr3(LAMBDA k, j, i :
            IF ph = "corrector" THEN GasToCons1D(2, GasInit(p, MHD, k, j - 1, i))
            ELSE StaleCons1D)
       /\ Ur_x2Face = Arr3(LAMBDA k, j, i :
            IF ph = "corrector" THEN GasToCons1D(2, GasInit(p, MHD, k, j, i))
            ELSE StaleCons1D)
       /\ Ul_x3Face = Arr3(LAMBDA k, j, i :
            IF ph = "corrector" THEN GasToCons1D(3, GasInit(p, MHD, k - 1, j, i))
            ELSE StaleCons1D)
       /\ Ur_x3Face = Arr3(LAMBDA k, j, i :
            IF ph = "corrector" THEN GasToCons1D(3, GasInit(p, MHD, k, j, i))
            ELSE StaleCons1D)
       /\ sw = [phase |-> ph, at |-> <<0, 0, 0>>, first |-> 0, mixed |-> FALSE,
                wrote |-> <<{}, {}, {}>>,
                Ul |-> [n \in StripIdx |-> StaleCons1D],
                Ur |-> [n \in StripIdx |-> StaleCons1D],
                W |-> [n \in StripIdx |-> StaleVec],
                Bxc |-> [n \in StripIdx |-> Stale]]
  /\ x1Flux = Arr3(LAMBDA k, j, i : StaleCons1D)
  /\ x2Flux = Arr3(LAMBDA k, j, i : StaleCons1D)
  /\ x3Flux = Arr3(LAMBDA k, j, i : StaleCons1D)
  /\ emf1 = NULL /\ emf2 = NULL /\ emf3 = NULL
  /\ emf1_cc = NULL /\ emf2_cc = NULL /\ emf3_cc = NULL
  /\ Ineg = NULL /\ negcount = 0 /\ perr = {}
  /\ solver = NoPert /\ solverDet = TRUE
  /\ in = NULL /\ U12 = NULL /\ acct = NULL /\ writtenBy = NULL /\ ix = NULL
  /\ cfg = [order |-> sOrder, mhd |-> MHD, hcorr |-> FALSE, nghost |-> nghost,
            stage |-> "ready", minghost |-> minghost(sOrder, MHD, FALSE)]
  /\ plm = NULL
  /\ cv = NULL

rowsRest == <<pc, gridVars, U, bVars, Uhalf, emfVars, ccVars, negVars, solver,
              solverDet, in, U12, acct, cfg, plm, cv, writtenBy, ix>>

\* some other sweep has filled the work arrays and has not used them yet
Pending(dir) == \E o \in 1 .. 3 : o # dir /\ sw.at[o] % 2 = 1
\* sweep dir moves on by n half rows, having written the arrays of names
Moved(dir, n, names, load) ==
  [sw EXCEPT !.at[dir] = @ + n,
             !.first = IF @ = 0 THEN dir ELSE @,
             !.mixed = @ \/ (load /\ Pending(dir)),
             !.wrote[dir] = @ \cup names]
FaceName(dir) == IF dir = 1 THEN "B1_x1Face" ELSE IF dir = 2 THEN "B2_x2Face" ELSE "B3_x3Face"
FluxName(dir) == IF dir = 1 THEN "x1Flux" ELSE IF dir = 2 THEN "x2Flux" ELSE "x3Flux"
UlName(dir) == IF dir = 1 THEN "Ul_x1Face" ELSE IF dir = 2 THEN "Ul_x2Face" ELSE "Ul_x3Face"
UrName(dir) == IF dir = 1 THEN "Ur_x1Face" ELSE IF dir = 2 THEN "Ur_x2Face" ELSE "Ur_x3Face"
GridAt(A, c) == A[c[1]][c[2]][c[3]]
Bi(dir) == IF dir = 1 THEN B1i ELSE IF dir = 2 THEN B2i ELSE B3i
BFace(dir) == IF dir = 1 THEN B1_x1Face ELSE IF dir = 2 THEN B2_x2Face ELSE B3_x3Face
UlFace(dir) == IF dir = 1 THEN Ul_x1Face ELSE IF dir = 2 THEN Ul_x2Face ELSE Ul_x3Face
UrFace(dir) == IF dir = 1 THEN Ur_x1Face ELSE IF dir = 2 THEN Ur_x2Face ELSE Ur_x3Face
Flux(dir) == IF dir = 1 THEN x1Flux ELSE IF dir = 2 THEN x2Flux ELSE x3Flux

\* Steps 1-3, first loop of a row: Ul[n], Ur[n] from the cells n-1 and n, and
\* the interface field copied to B?_x?Face
PredictorLoad(dir) ==
  /\ sw # NULL /\ sw.phase = "predictor"
  /\ sw.at[dir] < 2 * MaxRows /\ sw.at[dir] % 2 = 0
  /\ LET s == sw.at[dir] \div 2
         lo == LoAll(dir) + 1
         hi == HiAll(dir)
         face(n) == GridAt(Bi(dir), RowAt(dir, s, n))
     IN  /\ sw' = [Moved(dir, 1, {"Ul", "Ur"} \cup (IF MHD THEN {FaceName(dir)} ELSE {}), TRUE)
                     EXCEPT !.Ul = RowFill(sw.Ul, lo, hi,
                                     LAMBDA n : GasToCons1D(dir, GridAt(U, RowAt(dir, s, n - 1)))),
                            !.Ur = RowFill(sw.Ur, lo, hi,
                                     LAMBDA n : GasToCons1D(dir, GridAt(U, RowAt(dir, s, n))))]
         /\ B1_x1Face' = RowWrite(B1_x1Face, MHD /\ dir = 1, dir, s, lo, hi, face)
         /\ B2_x2Face' = RowWrite(B2_x2Face, MHD /\ dir = 2, dir, s, lo, hi, face)
         /\ B3_x3Face' = RowWrite(B3_x3Face, MHD /\ dir = 3, dir, s, lo, hi, face)
  /\ UNCHANGED <<rowsRest, lrVars, fluxVars>>

\* Steps 1-3, second loop of a row: GET_FLUXES on Ul[n], Ur[n]
PredictorFlux(dir) ==
  /\ sw # NULL /\ sw.phase = "predictor"
  /\ sw.at[dir] % 2 = 1
  /\ LET s == sw.at[dir] \div 2
         lo == LoAll(dir) + 1
         hi == HiAll(dir)
         flux(n) == LET c == RowAt(dir, s, n)
                    IN  GET_FLUXES(NoPert, dir, c[1], c[2], c[3],
                                   IF MHD THEN GridAt(BFace(dir), c) ELSE Zero,
                                   sw.Ul[n], sw.Ur[n])
     IN  /\ x1Flux' = RowWrite(x1Flux, dir = 1, dir, s, lo, hi, flux)
         /\ x2Flux' = RowWrite(x2Flux, dir = 2, dir, s, lo, hi, flux)
         /\ x3Flux' = RowWrite(x3Flux, dir = 3, dir, s, lo, hi, flux)
  /\ sw' = Moved(dir, 1, {FluxName(dir)}, FALSE)
  /\ UNCHANGED <<rowsRest, lrVars, faceVars>>

\* the first loops of a row filling the corrector's range b .. t only
ReconLoad_inner(dir) ==
  /\ sw # NULL /\ sw.phase = "reconstruct"
  /\ sw.at[dir] < 2 * MaxRows /\ sw.at[dir] % 2 = 0
  /\ LET s == sw.at[dir] \div 2
         c == RowCell(dir, s)
     IN  sw' = [Moved(dir, 1, {"U1d", "W", "Bxc"} \cup (IF MHD THEN {"Bxi"} ELSE {}), TRUE)
                  EXCEPT !.W = RowFill(sw.W, LoCorr(dir), HiCorr(dir),
                                  LAMBDA n : W(dir, c[1], c[2], c[3], n)),
                         !.Bxc = RowFill(sw.Bxc, LoCorr(dir), HiCorr(dir),
                                  LAMBDA n : Bxc(dir, c[1], c[2], c[3], n))]
  /\ UNCHANGED <<rowsRest, lrVars, fluxVars, faceVars>>

\* Steps 7a-7c, first loops of a row: U1d[n], Bxc[n] from Uhalf over the
\* whole row, and W[n] = Cons1D_to_Prim1D(U1d[n], Bxc[n])
ReconLoad(dir) ==
  /\ sw # NULL /\ sw.phase = "reconstruct"
  /\ sw.at[dir] < 2 * MaxRows /\ sw.at[dir] % 2 = 0
  /\ LET s == sw.at[dir] \div 2
         c == RowCell(dir, s)
     IN  sw' = [Moved(dir, 1, {"U1d", "W", "Bxc"} \cup (IF MHD THEN {"Bxi"} ELSE {}), TRUE)
                  EXCEPT !.W = RowFill(sw.W, LoAll(dir), HiAll(dir),
                                  LAMBDA n : W(dir, c[1], c[2], c[3], n)),
                         !.Bxc = RowFill(sw.Bxc, LoAll(dir), HiAll(dir),
                                  LAMBDA n : Bxc(dir, c[1], c[2], c[3], n))]
  /\ UNCHANGED <<rowsRest, lrVars, fluxVars, faceVars>>

\* Steps 7a-7c, rest of a row: lr_states on W and Bxc, Wl and Wr turned into
\* Ul and Ur with Bxc[n] and stored in U?_x?Face
ReconStore(dir) ==
  /\ sw # NULL /\ sw.phase = "reconstruct"
  /\ sw.at[dir] % 2 = 1
  /\ LET s == sw.at[dir] \div 2
         lo == LoCorr(dir) + 1
         hi == HiCorr(dir)
         ul(n) == Prim1D_to_Cons1D(
                    AsPrim1D(lr_states_Wl(sw.W, sw.Bxc, Zero, lo, hi - 1, n)), sw.Bxc[n])
         ur(n) == Prim1D_to_Cons1D(
                    AsPrim1D(lr_states_Wr(sw.W, sw.Bxc, Zero, lo, hi - 1, n)), sw.Bxc[n])
     IN  /\ Ul_x1Face' = RowWrite(Ul_x1Face, dir = 1, dir, s, lo, hi, ul)
         /\ Ur_x1Face' = RowWrite(Ur_x1Face, dir = 1, dir, s, lo, hi, ur)
         /\ Ul_x2Face' = RowWrite(Ul_x2Face, dir = 2, dir, s, lo, hi, ul)
         /\ Ur_x2Face' = RowWrite(Ur_x2Face, dir = 2, dir, s, lo, hi, ur)
         /\ Ul_x3Face' = RowWrite(Ul_x3Face, dir = 3, dir, s, lo, hi, ul)
         /\ Ur_x3Face' = RowWrite(Ur_x3Face, dir = 3, dir, s, lo, hi, ur)
  /\ sw' = Moved(dir, 1, {"Wl", "Wr", "Ul", "Ur", UlName(dir), UrName(dir)}, FALSE)
  /\ UNCHANGED <<rowsRest, fluxVars, faceVars>>

\* Steps 9a-9c, one row: GET_FLUXES on the stored field and L/R states
CorrectorFlux(dir) ==
  /\ sw # NULL /\ sw.phase = "corrector"
  /\ sw.at[dir] < 2 * MaxRows
  /\ LET s == sw.at[dir] \div 2
         lo == LoCorr(dir) + 1
         hi == HiCorr(dir)
         flux(n) == LET c == RowAt(dir, s, n)
                    IN  GET_FLUXES(NoPert, dir, c[1], c[2], c[3],
                                   IF MHD THEN GridAt(BFace(dir), c) ELSE Zero,
                                   GridAt(UlFace(dir), c), GridAt(UrFace(dir), c))
     IN  /\ x1Flux' = RowWrite(x1Flux, dir = 1, dir, s, lo, hi, flux)
         /\ x2Flux' = RowWrite(x2Flux, dir = 2, dir, s, lo, hi, flux)
         /\ x3Flux' = RowWrite(x3Flux, dir = 3, dir, s, lo, hi, flux)
  /\ sw' = Moved(dir, 2, {FluxName(dir)}, FALSE)
  /\ UNCHANGED <<rowsRest, lrVars, faceVars>>

NextRows ==
  \E dir \in 1 .. 3 :
    \/ PredictorLoad(dir)
    \/ PredictorFlux(dir)
    \/ ReconLoad(dir)
    \/ ReconStore(dir)
    \/ CorrectorFlux(dir)
SpecRows == InitRows /\ [][NextRows]_vars

(***************************************************************************)
(* The array elements the loops of a step touch                            *)
(***************************************************************************)
MaxBlock == 2
\* the active cells <<Nx3, Nx2, Nx1>> of a block
Blocks == [1 .. 3 -> 1 .. MaxBlock]

\* pGrid->ks, js, is: the grid keeps nghost cells below the first active one
ActiveLo(p) == cfg.nghost
\* pGrid->ke, je, ie
ActiveHi(p) == ActiveLo(p) + ix.nx[p] - 1
\* the limits the loops are written with: s, e the active cells, l, u the
\* whole block, b, t the widest limits of the build's order
LoopLimit_wide(b, p) ==
  CASE b = "s" -> ActiveLo(p)
    [] b = "e" -> ActiveHi(p)
    [] b = "l" -> ActiveLo(p) - cfg.nghost
    [] b = "u" -> ActiveHi(p) + cfg.nghost
    [] b = "b" -> (ActiveLo(p) - cfg.nghost) + cfg.order
    [] b = "t" -> ActiveHi(p) + cfg.nghost
LoopLimit(b, p) ==
  CASE b = "s" -> ActiveLo(p)
    [] b = "e" -> ActiveHi(p)
    [] b = "l" -> ActiveLo(p) - cfg.nghost
    [] b = "u" -> ActiveHi(p) + cfg.nghost
    [] b = "b" -> (ActiveLo(p) - cfg.nghost) + cfg.order
    [] b = "t" -> (ActiveHi(p) + cfg.nghost) - cfg.order
\* for (v = b1+o1; v <= b2+o2; v++)
Loop(b1, o1, b2, o2) == <<<<b1, o1>>, <<b2, o2>>>>
LoopEnd(l, e, p) == LoopLimit(l[e][1], p) + l[e][2]
Widened(l, n) == <<<<l[1][1], l[1][2] - n>>, <<l[2][1], l[2][2] + n>>>>

\* integrate_init_3d: every 3-D array is calloc_3d_array(Nx3, Nx2, Nx1) with
\* the ghost cells counted in, every strip has nmax elements
Allocated(p) == ix.nx[p] + 2 * cfg.nghost
nmax == CHOOSE n \in {Allocated(p) : p \in 1 .. 3} : \A p \in 1 .. 3 : Allocated(p) <= n

\* The loop nests of integrate_3d_vl over [k][j][i], by the line of their
\* first array access; mhd: all of it is under #ifdef MHD; at: the offsets
\* added to <<k, j, i>>.  An index written as a limit is a loop of one pass.
StepLoops ==
  { [line |-> 142, mhd |-> FALSE,
      loops |-> <<Loop("l", 0, "u", 0), Loop("l", 0, "u", 0), Loop("l", 0, "u", 0)>>,
      at |-> {<<0, 0, 0>>}],
    [line |-> 155, mhd |-> FALSE,
      loops |-> <<Loop("l", 0, "u", 0), Loop("l", 0, "u", 0), Loop("l", 1, "u", 0)>>,
      at |-> {<<0, 0, -1>>, <<0, 0, 0>>}],
    [line |-> 203, mhd |-> FALSE,
      loops |-> <<Loop("l", 0, "u", 0), Loop("l", 1, "u", 0), Loop("l", 0, "u", 0)>>,
      at |-> {<<0, -1, 0>>, <<0, 0, 0>>}],
    [line |-> 251, mhd |-> FALSE,
      loops |-> <<Loop("l", 1, "u", 0), Loop("l", 0, "u", 0), Loop("l", 0, "u", 0)>>,
      at |-> {<<-1, 0, 0>>, <<0, 0, 0>>}],
    [line |-> 327, mhd |-> FALSE,
      loops |-> <<Loop("l", 1, "u", -1), Loop("l", 1, "u", -1), Loop("l", 1, "u", -1)>>,
      at |-> {<<0, 0, 0>>, <<1, 0, 0>>, <<0, 1, 0>>, <<0, 0, 1>>}],
    [line |-> 334, mhd |-> TRUE,
      loops |-> <<Loop("l", 1, "u", -1), Loop("l", 1, "u", -1), Loop("u", 0, "u", 0)>>,
      at |-> {<<0, 0, 0>>, <<1, 0, 0>>, <<0, 1, 0>>}],
    [line |-> 338, mhd |-> TRUE,
      loops |-> <<Loop("l", 1, "u", -1), Loop("u", 0, "u", 0), Loop("l", 1, "u", -1)>>,
      at |-> {<<0, 0, 0>>, <<0, 0, 1>>, <<1, 0, 0>>}],
    [line |-> 344, mhd |-> TRUE,
      loops |-> <<Loop("u", 0, "u", 0), Loop("l", 1, "u", -1), Loop("l", 1, "u", -1)>>,
      at |-> {<<0, 0, 0>>, <<0, 1, 0>>, <<0, 0, 1>>}],
    [line |-> 479, mhd |-> FALSE,
      loops |-> <<Loop("b", 0, "t", 0), Loop("b", 0, "t", 0), Loop("l", 0, "u", 0)>>,
      at |-> {<<0, 0, 0>>}],
    [line |-> 508, mhd |-> FALSE,
      loops |-> <<Loop("b", 0, "t", 0), Loop("b", 0, "t", 0), Loop("b", 1, "t", 0)>>,
      at |-> {<<0, 0, 0>>}],
    [line |-> 522, mhd |-> FALSE,
      loops |-> <<Loop("b", 0, "t", 0), Loop("l", 0, "u", 0), Loop("b", 0, "t", 0)>>,
      at |-> {<<0, 0, 0>>}],
    [line |-> 553, mhd |-> FALSE,
      loops |-> <<Loop("b", 0, "t", 0), Loop("b", 1, "t", 0), Loop("b", 0, "t", 0)>>,
      at |-> {<<0, 0, 0>>}],
    [line |-> 567, mhd |-> FALSE,
      loops |-> <<Loop("l", 0, "u", 0), Loop("b", 0, "t", 0), Loop("b", 0, "t", 0)>>,
      at |-> {<<0, 0, 0>>}],
    [line |-> 598, mhd |-> FALSE,
      loops |-> <<Loop("b", 1, "t", 0), Loop("b", 0, "t", 0), Loop("b", 0, "t", 0)>>,
      at |-> {<<0, 0, 0>>}],
    [line |-> 730, mhd |-> TRUE,
      loops |-> <<Loop("b", 0, "t", 0), Loop("b", 0, "t", 0), Loop("b", 0, "t", 0)>>,
      at |-> {<<0, 0, 0>>}],
    [line |-> 759, mhd |-> FALSE,
      loops |-> <<Loop("b", 1, "t", -1), Loop("b", 1, "t", -1), Loop("b", 1, "t", -1)>>,
      at |-> {<<0, 0, 0>>, <<1, 0, 0>>, <<0, 1, 0>>, <<0, 0, 1>>}],
    [line |-> 766, mhd |-> TRUE,
      loops |-> <<Loop("b", 1, "t", -1), Loop("b", 1, "t", -1), Loop("t", 0, "t", 0)>>,
      at |-> {<<0, 0, 0>>, <<1, 0, 0>>, <<0, 1, 0>>}],
    [line |-> 771, mhd |-> TRUE,
      loops |-> <<Loop("b", 1, "t", -1), Loop("t", 0, "t", 0), Loop("b", 1, "t", -1)>>,
      at |-> {<<0, 0, 0>>, <<0, 0, 1>>, <<1, 0, 0>>}],
    [line |-> 778, mhd |-> TRUE,
      loops |-> <<Loop("t", 0, "t", 0), Loop("b", 1, "t", -1), Loop("b", 1, "t", -1)>>,
      at |-> {<<0, 0, 0>>, <<0, 1, 0>>, <<0, 0, 1>>}] }

\* integrate_emf1_corner, integrate_emf2_corner, integrate_emf3_corner
CornerLoops ==
  { [line |-> 1117, mhd |-> TRUE,
      loops |-> <<Loop("l", 1, "u", 0), Loop("l", 1, "u", 0), Loop("l", 1, "u", -1)>>,
      at |-> {<<-1, 0, 0>>, <<0, -1, 0>>, <<-1, -1, 0>>, <<0, 0, 0>>}],
    [line |-> 1178, mhd |-> TRUE,
      loops |-> <<Loop("l", 1, "u", 0), Loop("l", 1, "u", -1), Loop("l", 1, "u", 0)>>,
      at |-> {<<-1, 0, 0>>, <<0, 0, -1>>, <<-1, 0, -1>>, <<0, 0, 0>>}],
    [line |-> 1239, mhd |-> TRUE,
      loops |-> <<Loop("l", 1, "u", -1), Loop("l", 1, "u", 0), Loop("l", 1, "u", 0)>>,
      at |-> {<<0, -1, 0>>, <<0, 0, -1>>, <<0, -1, -1>>, <<0, 0, 0>>}] }

\* first_order_correction
CorrectionLoops ==
  { [line |-> 1345, mhd |-> FALSE,
      loops |-> <<Loop("b", 1, "t", -1), Loop("b", 1, "t", -1), Loop("b", 1, "t", -1)>>,
      at |-> {<<0, 0, 0>>, <<0, 0, 1>>, <<0, 1, 0>>, <<1, 0, 0>>}],
    [line |-> 1379, mhd |-> TRUE,
      loops |-> <<Loop("b", 1, "t", 0), Loop("b", 1, "t", 0), Loop("b", 1, "t", 0)>>,
      at |-> {<<0, 0, 0>>, <<-1, 0, 0>>, <<0, 0, -1>>, <<1, 0, 0>>, <<1, 0, -1>>,
             <<0, -1, 0>>, <<0, 1, 0>>, <<0, 1, -1>>, <<1, -1, 0>>, <<0, 0, 1>>,
             <<0, -1, 1>>, <<-1, 1, 0>>, <<-1, 0, 1>>}],
    [line |-> 1442, mhd |-> FALSE,
      loops |-> <<Loop("b", 2, "t", -2), Loop("b", 2, "t", -2), Loop("b", 2, "t", -2)>>,
      at |-> {<<0, 0, 0>>, <<0, 0, 1>>, <<0, 1, 0>>, <<1, 0, 0>>}],
    [line |-> 1518, mhd |-> FALSE,
      loops |-> <<Loop("b", 2, "t", -1), Loop("b", 2, "t", -1), Loop("b", 2, "t", -1)>>,
      at |-> {<<0, 0, 0>>, <<1, 0, 0>>, <<0, 1, 0>>, <<0, 0, 1>>, <<0, 0, -1>>,
             <<0, -1, 0>>, <<-1, 0, 0>>}],
    [line |-> 1614, mhd |-> TRUE,
      loops |-> <<Loop("b", 2, "t", 0), Loop("b", 2, "t", 0), Loop("b", 2, "t", -1)>>,
      at |-> {<<0, 0, 0>>, <<-1, 0, 0>>, <<0, -1, 0>>, <<-1, -1, 0>>}],
    [line |-> 1667, mhd |-> TRUE,
      loops |-> <<Loop("b", 2, "t", 0), Loop("b", 2, "t", -1), Loop("b", 2, "t", 0)>>,
      at |-> {<<0, 0, 0>>, <<-1, 0, 0>>, <<0, 0, -1>>, <<-1, 0, -1>>}],
    [line |-> 1720, mhd |-> TRUE,
      loops |-> <<Loop("b", 2, "t", -1), Loop("b", 2, "t", 0), Loop("b", 2, "t", 0)>>,
      at |-> {<<0, 0, 0>>, <<0, -1, 0>>, <<0, 0, -1>>, <<0, -1, -1>>}],
    [line |-> 1870, mhd |-> FALSE,
      loops |-> <<Loop("s", 0, "e", 0), Loop("s", 0, "e", 0), Loop("s", 0, "e", 0)>>,
      at |-> {<<0, 0, 0>>}] }

\* the scratch strips U1d, W, Bxc, Bxi, Wl, Wr, Ul, Ur in integrate_3d_vl;
\* pos is the index of <<k, j, i>> the strip runs along
StripLoops ==
  { [line |-> 155, mhd |-> FALSE, pos |-> 3, loop |-> Loop("l", 1, "u", 0), at |-> {0}],
    [line |-> 203, mhd |-> FALSE, pos |-> 2, loop |-> Loop("l", 1, "u", 0), at |-> {0}],
    [line |-> 251, mhd |-> FALSE, pos |-> 1, loop |-> Loop("l", 1, "u", 0), at |-> {0}],
    [line |-> 479, mhd |-> FALSE, pos |-> 3, loop |-> Loop("l", 0, "u", 0), at |-> {0}],
    [line |-> 504, mhd |-> FALSE, pos |-> 3, loop |-> Loop("b", 1, "t", 0), at |-> {0}],
    [line |-> 522, mhd |-> FALSE, pos |-> 2, loop |-> Loop("l", 0, "u", 0), at |-> {0}],
    [line |-> 549, mhd |-> FALSE, pos |-> 2, loop |-> Loop("b", 1, "t", 0), at |-> {0}],
    [line |-> 567, mhd |-> FALSE, pos |-> 1, loop |-> Loop("l", 0, "u", 0), at |-> {0}],
    [line |-> 594, mhd |-> FALSE, pos |-> 1, loop |-> Loop("b", 1, "t", 0), at |-> {0}] }

\* the window integrate_3d_vl hands to lr_states: lr_states(W,Bxc,..,ib+1,it-1,Wl,Wr)
LrWindow == Loop("b", 1, "t", -1)
\* lr_states of lr_states_plm.c: pW[i] = &W[i] over [il-2, iu+2]; then for
\* i = il-1 .. iu+1 it reads W[i-1], W[i], W[i+1], Bxc[i] and writes Wl[i+1], Wr[i]
LrLoops ==
  UNION {{[line |-> 76, mhd |-> FALSE, pos |-> p, loop |-> Widened(LrWindow, 2), at |-> {0}],
          [line |-> 79, mhd |-> FALSE, pos |-> p, loop |-> Widened(LrWindow, 1),
           at |-> {-1, 0, 1}]} : p \in 1 .. 3}

InitIdx ==
  /\ pc = "cfg0"
  /\ \E order \in 1 .. 3, mhd \in BOOLEAN, hcorr \in BOOLEAN, ng \in 0 .. MaxGhost :
       cfg = [order |-> order, mhd |-> mhd, hcorr |-> hcorr, nghost |-> ng,
              stage |-> "source", minghost |-> 0]
  /\ \E b \in Blocks : ix = [nx |-> b, kind |-> "none", line |-> 0, off |-> <<>>, at |-> <<>>]
  /\ plm = NULL
  /\ cv = NULL
  /\ MHD = FALSE
  /\ StaticGravPot = NULL /\ dt = Zero /\ dx1 = One /\ dx2 = One /\ dx3 = One
  /\ disp = <<0, 0, 0>>
  /\ U = NULL /\ B1i = NULL /\ B2i = NULL /\ B3i = NULL /\ Uhalf = NULL
  /\ B1_x1Face = NULL /\ B2_x2Face = NULL /\ B3_x3Face = NULL
  /\ Ul_x1Face = NULL /\ Ur_x1Face = NULL /\ Ul_x2Face = NULL
  /\ Ur_x2Face = NULL /\ Ul_x3Face = NULL /\ Ur_x3Face = NULL
  /\ x1Flux = NULL /\ x2Flux = NULL /\ x3Flux = NULL
  /\ emf1 = NULL /\ emf2 = NULL /\ emf3 = NULL
  /\ emf1_cc = NULL /\ emf2_cc = NULL /\ emf3_cc = NULL
  /\ Ineg = NULL /\ negcount = 0 /\ perr = {}
  /\ solver = NoPert /\ solverDet = TRUE
  /\ in = NULL /\ U12 = NULL /\ acct = NULL /\ writtenBy = NULL /\ sw = NULL

idxRest == <<pc, gridVars, U, bVars, Uhalf, faceVars, lrVars, fluxVars, emfVars,
             ccVars, negVars, solver, solverDet, in, U12, acct, cfg, plm, cv,
             writtenBy, sw>>

\* one pass of the body of a loop nest, at the first or the last value of
\* each of its loops; a behaviour follows one array access of the step
Access3D(nests) ==
  /\ cfg.stage = "ready"
  /\ ix.kind = "none"
  /\ \E n \in nests :
       /\ n.mhd => cfg.mhd
       /\ \A p \in 1 .. 3 : LoopEnd(n.loops[p], 1, p) <= LoopEnd(n.loops[p], 2, p)
       /\ \E off \in n.at, e \in [1 .. 3 -> 1 .. 2] :
            ix' = [ix EXCEPT !.kind = "3d", !.line = n.line, !.off = off,
                             !.at = [p \in 1 .. 3 |-> LoopEnd(n.loops[p], e[p], p) + off[p]]]
  /\ UNCHANGED idxRest

Access1D(rows) ==
  /\ cfg.stage = "ready"
  /\ ix.kind = "none"
  /\ \E n \in rows :
       /\ n.mhd => cfg.mhd
       /\ LoopEnd(n.loop, 1, n.pos) <= LoopEnd(n.loop, 2, n.pos)
       /\ \E off \in n.at, e \in 1 .. 2 :
            ix' = [ix EXCEPT !.kind = "strip", !.line = n.line, !.off = <<off>>,
                             !.at = <<LoopEnd(n.loop, e, n.pos) + off>>]
  /\ UNCHANGED idxRest

StepAccess == pc = "cfg2" /\ Access3D(StepLoops)
\* the corner EMFs are compiled and called under #ifdef MHD
CornerAccess == pc = "cfg2" /\ cfg.mhd /\ Access3D(CornerLoops)
CorrectionAccess == pc = "cfg2" /\ FIRST_ORDER_FLUX_CORRECTION /\ Access3D(CorrectionLoops)
StripAccess == pc = "cfg2" /\ Access1D(StripLoops)
\* lr_states_plm.c is the reconstruction of a SECOND_ORDER build
LrStatesAccess == pc = "cfg2" /\ cfg.order = 2 /\ Access1D(LrLoops)

NextIdx ==
  \/ Compile
  \/ integrate_init_3d
  \/ StepAccess
  \/ CornerAccess
  \/ CorrectionAccess
  \/ StripAccess
  \/ LrStatesAccess
SpecIdx == InitIdx /\ [][NextIdx]_vars

(***************************************************************************)
(* Properties                                                              *)
(***************************************************************************)
Cells == KK \X JJ \X II
ActiveCells == {c \in Cells : Active(c[1], c[2], c[3])}

Div(b1, b2, b3, k, j, i) ==
  Add3(RDiv(RSub(b1[k][j][i + 1], b1[k][j][i]), dx1),
       RDiv(RSub(b2[k][j + 1][i], b2[k][j][i]), dx2),
       RDiv(RSub(b3[k + 1][j][i], b3[k][j][i]), dx3))

\* the field entering the step is solenoidal on every cell of the block
InDivFree ==
  \A c \in Cells :
    (c[1] + 1 \in KK /\ c[2] + 1 \in JJ /\ c[3] + 1 \in II)
      => Div(in.B1i, in.B2i, in.B3i, c[1], c[2], c[3]) = Zero

\* C2: if the face field entering a step is solenoidal on the whole block, the
\* discrete divergence of (B1i, B2i, B3i) is exactly zero on every active cell
\* on return, whether or not first_order_correction reverted and re-applied
\* faces.
C2_DivFreeOnReturn ==
  (pc = "done" /\ MHD /\ InDivFree)
    => \A c \in ActiveCells : Div(B1i, B2i, B3i, c[1], c[2], c[3]) = Zero

\* a returned MHD step whose correction reverted and re-applied a face of an
\* active cell, leaving it different from the input
C2_Witness ==
  /\ pc = "done" /\ MHD /\ InDivFree
  /\ \E c \in ActiveCells :
       /\ HasFlag(Ineg[c[1]][c[2]][c[3]], correct_mhd_x1)
       /\ B1i[c[1]][c[2]][c[3]] # in.B1i[c[1]][c[2]][c[3]]

\* C3: if the face field at t^n is solenoidal on the block then, once the
\* half-step CT update has run, the predictor buffers B1_x1Face, B2_x2Face,
\* B3_x3Face are solenoidal on every cell of [il+1,iu-1] x [jl+1,ju-1] x
\* [kl+1,ku-1], each face of such a cell being the t^n face advanced by half
\* a step of the circulation of the same corner EMFs.
C3_PredictorDivFree ==
  (MHD /\ InDivFree /\ pc \notin {"p0", "s1", "s2", "s3", "s4", "s4c", "s5"})
    => \A c \in Cells :
         InLoop(c[1], c[2], c[3], kl + 1, ku - 1, jl + 1, ju - 1, il + 1, iu - 1)
           => /\ Div(B1_x1Face, B2_x2Face, B3_x3Face, c[1], c[2], c[3]) = Zero
              /\ pc = "s6" =>
                   \A d \in {0, 1} :
                     /\ B1_x1Face[c[1]][c[2]][c[3] + d] =
                          CT1(in.B1i[c[1]][c[2]][c[3] + d], RMul(Half, dtodx2),
                              RMul(Half, dtodx3), emf2, emf3, c[1], c[2], c[3] + d)
                     /\ B2_x2Face[c[1]][c[2] + d][c[3]] =
                          CT2(in.B2i[c[1]][c[2] + d][c[3]], RMul(Half, dtodx1),
                              RMul(Half, dtodx3), emf1, emf3, c[1], c[2] + d, c[3])
                     /\ B3_x3Face[c[1] + d][c[2]][c[3]] =
                          CT3(in.B3i[c[1] + d][c[2]][c[3]], RMul(Half, dtodx1),
                              RMul(Half, dtodx2), emf1, emf2, c[1] + d, c[2], c[3])

\* the half-step CT update has just run and moved a face of an active cell
C3_Witness ==
  /\ pc = "s6" /\ MHD /\ InDivFree
  /\ B3_x3Face[ks][js][is] # in.B3i[ks][js][is]
  /\ B1_x1Face[ks][js][is] # in.B1i[ks][js][is]

\* the cells Steps 13a-c update
Updated(k, j, i) == InLoop(k, j, i, kb + 1, kt - 1, jb + 1, jt - 1, ib + 1, it - 1)

\* what the two cells sharing the lower interface of (k,j,i) in direction n
\* have received through it adds up to nothing
Cancels(n, k, j, i) ==
  IF n = 1 THEN AmtAdd(acct[k][j][i - 1][2], acct[k][j][i][1]) = ZeroAmt
  ELSE IF n = 2 THEN AmtAdd(acct[k][j - 1][i][4], acct[k][j][i][3]) = ZeroAmt
  ELSE AmtAdd(acct[k - 1][j][i][6], acct[k][j][i][5]) = ZeroAmt

\* the cell on the lower side of that interface
Below(n, c) ==
  IF n = 1 THEN <<c[1], c[2], c[3] - 1>>
  ELSE IF n = 2 THEN <<c[1], c[2] - 1, c[3]>> ELSE <<c[1] - 1, c[2], c[3]>>

\* the change of cell c since Step 12, and the account of it
CellChange(c) ==
  LET g == U[c[1]][c[2]][c[3]]
      h == U12[c[1]][c[2]][c[3]]
  IN  [d |-> RSub(g.d, h.d), M1 |-> RSub(g.M1, h.M1), M2 |-> RSub(g.M2, h.M2),
       M3 |-> RSub(g.M3, h.M3), E |-> RSub(g.E, h.E), s |-> RSub(g.s, h.s)]
Received(c) ==
  LET a == acct[c[1]][c[2]][c[3]]
  IN  AmtAdd(AmtAdd(AmtAdd(a[1], a[2]), AmtAdd(a[3], a[4])), AmtAdd(a[5], a[6]))

\* what cell c received through those of its interfaces that bound the
\* active region
ThroughOuter(c) ==
  LET a == acct[c[1]][c[2]][c[3]]
      P(cond, x) == IF cond THEN x ELSE ZeroAmt
  IN  AmtAdd(AmtAdd(AmtAdd(P(c[3] = is, a[1]), P(c[3] = ie, a[2])),
                    AmtAdd(P(c[2] = js, a[3]), P(c[2] = je, a[4]))),
             AmtAdd(P(c[1] = ks, a[5]), P(c[1] = ke, a[6])))

RECURSIVE RegionChange(_)
RegionChange(S) ==
  IF S = {} THEN ZeroAmt
  ELSE LET c == CHOOSE x \in S : TRUE
       IN  AmtAdd(CellChange(c), RegionChange(S \ {c}))
RECURSIVE RegionInflow(_)
RegionInflow(S) ==
  IF S = {} THEN ZeroAmt
  ELSE LET c == CHOOSE x \in S : TRUE
       IN  AmtAdd(ThroughOuter(c), RegionInflow(S \ {c}))

\* the amounts of d, M and E cell (k,j,i) holds are those of the flux arrays
FinalFluxAmts(k, j, i) ==
  LET a == acct[k][j][i]
  IN  /\ NoS(a[1]) = NoS(Amt(1, dtodx1, x1Flux[k][j][i]))
      /\ NoS(a[2]) = NoS(AmtNeg(Amt(1, dtodx1, x1Flux[k][j][i + 1])))
      /\ NoS(a[3]) = NoS(Amt(2, dtodx2, x2Flux[k][j][i]))
      /\ NoS(a[4]) = NoS(AmtNeg(Amt(2, dtodx2, x2Flux[k][j + 1][i])))
      /\ NoS(a[5]) = NoS(Amt(3, dtodx3, x3Flux[k][j][i]))
      /\ NoS(a[6]) = NoS(AmtNeg(Amt(3, dtodx3, x3Flux[k + 1][j][i])))

C5_CellCentredMean ==
  (pc = "done" /\ MHD)
    => \A c \in ActiveCells :
         LET k == c[1]
             j == c[2]
             i == c[3]
         IN  /\ U[k][j][i].B1c = RMul(Half, RAdd(B1i[k][j][i], B1i[k][j][i + 1]))
             /\ U[k][j][i].B2c = RMul(Half, RAdd(B2i[k][j][i], B2i[k][j + 1][i]))
             /\ U[k][j][i].B3c = RMul(Half, RAdd(B3i[k][j][i], B3i[k + 1][j][i]))

\* a returned MHD step that corrected fields of an active cell and left it a
\* cell-centred field other than the one it came with
C5_Witness ==
  /\ pc = "done" /\ MHD
  /\ \E c \in ActiveCells :
       /\ HasFlag(Ineg[c[1]][c[2]][c[3]], correct_mhd_x2)
       /\ U[c[1]][c[2]][c[3]].B2c # in.U[c[1]][c[2]][c[3]].B2c

\* the premises of the fixed-point claim: one state in every cell, every
\* face field equal to the matching cell-centred component, no potential
\* registered and a solver that returned its base flux in every call
UniformFixedPointInput ==
  /\ IsUniform
  /\ StaticGravPot = NULL
  /\ solverDet
  /\ \A c \in Cells :
       /\ in.B1i[c[1]][c[2]][c[3]] = in.U[c[1]][c[2]][c[3]].B1c
       /\ in.B2i[c[1]][c[2]][c[3]] = in.U[c[1]][c[2]][c[3]].B2c
       /\ in.B3i[c[1]][c[2]][c[3]] = in.U[c[1]][c[2]][c[3]].B3c

\* C6: a uniform state with matching face fields, no gravity and a
\* deterministic solver is a fixed point: on return U is unchanged in every
\* active cell and B1i, B2i, B3i on every face of an active cell, in hydro
\* and in MHD.
C6_UniformFixedPoint ==
  (pc = "done" /\ UniformFixedPointInput)
    => \A c \in ActiveCells :
         LET k == c[1]
             j == c[2]
             i == c[3]
         IN  /\ U[k][j][i] = in.U[k][j][i]
             /\ B1i[k][j][i] = in.B1i[k][j][i] /\ B1i[k][j][i + 1] = in.B1i[k][j][i + 1]
             /\ B2i[k][j][i] = in.B2i[k][j][i] /\ B2i[k][j + 1][i] = in.B2i[k][j + 1][i]
             /\ B3i[k][j][i] = in.B3i[k][j][i] /\ B3i[k + 1][j][i] = in.B3i[k + 1][j][i]

\* a returned step from a uniform magnetised state under the base solver
C6_Witness ==
  /\ pc = "done" /\ MHD /\ UniformFixedPointInput
  /\ in.U[ks][js][is].B1c # Zero /\ in.U[ks][js][is].M1 # Zero

\* x lies between a and b inclusive
Within(a, b, x) ==
  /\ IsNum(x)
  /\ ~RLt(x, MIN(a, b))
  /\ ~RGt(x, MAX(a, b))

\* C7: called with dt = dtodx = 0, lr_states leaves at every interface i in
\* [il, iu+1] a Wl[i] and a Wr[i] whose every component, the scalar ratio
\* included, lies between W[i-1] and W[i]; interface densities of a strip of
\* positive densities are positive.
C7_MonotoneReconstruction ==
  pc = "plm1" =>
    \A i \in plm_il .. plm_iu + 1 :
      /\ \A n \in 1 .. NWAVE + 1 :
           /\ Within(plm.W[i - 1][n], plm.W[i][n], plm.Wl[i][n])
           /\ Within(plm.W[i - 1][n], plm.W[i][n], plm.Wr[i][n])
      /\ (RPos(plm.W[i - 1][1]) /\ RPos(plm.W[i][1]))
           => (RPos(plm.Wl[i][1]) /\ RPos(plm.Wr[i][1]))

\* lr_states has returned an interface state that is neither of the two
\* neighbouring cell values, in the density and in the scalar ratio
C7_Witness ==
  /\ pc = "plm1"
  /\ \E i \in plm_il .. plm_iu + 1 :
       /\ plm.Wl[i][1] \notin {plm.W[i - 1][1], plm.W[i][1]}
       /\ plm.Wr[i][NWAVE + 1] \notin {plm.W[i - 1][NWAVE + 1], plm.W[i][NWAVE + 1]}

\* no field of cell g holds prior scratch content
FreshGas(g) ==
  /\ ~IsStale(g.d) /\ ~IsStale(g.M1) /\ ~IsStale(g.M2) /\ ~IsStale(g.M3) /\ ~IsStale(g.E)
  /\ ~IsStale(g.B1c) /\ ~IsStale(g.B2c) /\ ~IsStale(g.B3c) /\ ~IsStale(g.s)

\* C8: what a step leaves in the active cells and on their faces does not
\* depend on what the scratch arrays held before it: no value there derives
\* from prior scratch content, and every flag the correction reads was
\* cleared by this step.
C8_Memoryless ==
  /\ pc = "done" =>
       \A c \in ActiveCells :
         LET k == c[1]
             j == c[2]
             i == c[3]
         IN  /\ FreshGas(U[k][j][i])
             /\ ~IsStale(B1i[k][j][i]) /\ ~IsStale(B1i[k][j][i + 1])
             /\ ~IsStale(B2i[k][j][i]) /\ ~IsStale(B2i[k][j + 1][i])
             /\ ~IsStale(B3i[k][j][i]) /\ ~IsStale(B3i[k + 1][j][i])
  /\ pc \in {"f_prop", "f_undo", "f_reflux", "f_emf", "f_redo", "f_check", "s15",
             "done", "aborted"} =>
       \A c \in Cells : Ineg[c[1]][c[2]][c[3]] \in 0 .. 63

\* a returned step that went through every scratch array: MHD, with a
\* correction that recomputed fluxes, EMFs and fields of an active cell
C8_Witness ==
  /\ pc = "done" /\ MHD
  /\ \E c \in ActiveCells :
       /\ HasFlag(Ineg[c[1]][c[2]][c[3]], correct_mhd_x3)
       /\ U[c[1]][c[2]][c[3]] # in.U[c[1]][c[2]][c[3]]

\* the bound of the claim: s+1, one more with H-correction, one more with the
\* flux correction
GhostBound(c) ==
  (c.order + 1) + (IF c.hcorr THEN 1 ELSE 0)
    + (IF FIRST_ORDER_FLUX_CORRECTION THEN 1 ELSE 0)

\* C9: a build with both H-correction and the flux correction is refused,
\* and integrate_init_3d aborts exactly when nghost is below s+1, plus one
\* for H-correction, plus one for the flux correction; no configuration with
\* both options reaches a state in which a step can run.
C9_InvalidConfigurationRefused ==
  /\ pc \in {"cfg1", "cfg2", "cfg_refused"} =>
       (cfg.stage = "refused" <=> (cfg.hcorr /\ FIRST_ORDER_FLUX_CORRECTION))
  /\ pc = "cfg2" =>
       /\ cfg.stage \in {"aborted", "ready"}
       /\ cfg.stage = "aborted" <=> cfg.nghost < GhostBound(cfg)
  /\ cfg.stage = "ready" =>
       /\ ~(cfg.hcorr /\ FIRST_ORDER_FLUX_CORRECTION)
       /\ cfg.nghost >= GhostBound(cfg)

\* integrate_init_3d has aborted with s+1 ghost zones, which the flux
\* correction makes one too few
C9_Witness ==
  /\ pc = "cfg2"
  /\ cfg.stage = "aborted"
  /\ cfg.nghost = cfg.order + 1
  /\ cfg.minghost = cfg.order + 2

\* the gas pressure the conserved state g implies
ImpliedP(g) ==
  RMul(Gamma_1,
       RSub(RSub(g.E, RDiv(Add3(SQR(g.M1), SQR(g.M2), SQR(g.M3)), RMul(R(2), g.d))),
            IF MHD THEN RMul(Half, Add3(SQR(g.B1c), SQR(g.B2c), SQR(g.B3c))) ELSE Zero))

\* C10: after a completed step from a block whose every cell has density > 0
\* and pressure above the floor, the pressure implied by the conserved state
\* of every active cell is above the floor.
C10_PressureAboveFloor ==
  (pc = "done" /\ \A c \in Cells : /\ RPos(in.U[c[1]][c[2]][c[3]].d)
                                  /\ RGt(ImpliedP(in.U[c[1]][c[2]][c[3]]), TINY_NUMBER))
    => \A c \in ActiveCells : RGt(ImpliedP(U[c[1]][c[2]][c[3]]), TINY_NUMBER)

(***************************************************************************)
(* The conversions between conserved and primitive variables               *)
(***************************************************************************)
FloorAt(p) == IF RGt(p, TINY_NUMBER) THEN p ELSE TINY_NUMBER

\* C11: for every conserved state with density > 0, Cons1D_to_Prim1D and
\* Cons_to_Prim return numbers, the velocities M/rho, the scalar s/rho and
\* the pressure max((gamma-1)*(E - |M|^2/(2 rho) - |B|^2/2), eps_P), the
\* magnetic term present only under MHD and holding the normal field; the
\* pressure is never below eps_P and is the unclamped one when that is at
\* least eps_P.
C11_ConsToPrimFormula ==
  /\ (pc # "conv0" /\ cv.call = "Cons1D_to_Prim1D" /\ RPos(cv.U.d)) =>
       LET p == ImpliedP(GasOf(cv.U, cv.Bx))
       IN  /\ \A f \in DOMAIN cv.W : IsNum(cv.W[f])
           /\ cv.W.d = cv.U.d
           /\ cv.W.Vx = RDiv(cv.U.Mx, cv.U.d)
           /\ cv.W.Vy = RDiv(cv.U.My, cv.U.d)
           /\ cv.W.Vz = RDiv(cv.U.Mz, cv.U.d)
           /\ cv.W.r = RDiv(cv.U.s, cv.U.d)
           /\ cv.W.P = FloorAt(p)
           /\ ~RLt(cv.W.P, TINY_NUMBER)
           /\ (~RLt(p, TINY_NUMBER)) => cv.W.P = p
  /\ (pc # "conv0" /\ cv.call = "Cons_to_Prim" /\ RPos(cv.U.d)) =>
       LET p == ImpliedP(GasOf(cv.U, cv.Bx))
       IN  /\ \A f \in DOMAIN cv.prim : IsNum(cv.prim[f])
           /\ cv.prim.d = cv.U.d
           /\ cv.prim.V1 = RDiv(cv.U.Mx, cv.U.d)
           /\ cv.prim.V2 = RDiv(cv.U.My, cv.U.d)
           /\ cv.prim.V3 = RDiv(cv.U.Mz, cv.U.d)
           /\ cv.prim.r = RDiv(cv.U.s, cv.U.d)
           /\ cv.prim.P = FloorAt(p)
           /\ ~RLt(cv.prim.P, TINY_NUMBER)
           /\ (~RLt(p, TINY_NUMBER)) => cv.prim.P = p

\* an MHD state with a normal field whose pressure the floor replaced
C11_Witness ==
  /\ pc = "conv1" /\ cv.call = "Cons1D_to_Prim1D" /\ MHD
  /\ RPos(cv.Bx) /\ RPos(cv.U.By) /\ RPos(cv.U.Mx)
  /\ RLt(ImpliedP(GasOf(cv.U, cv.Bx)), TINY_NUMBER)
  /\ cv.W.P = TINY_NUMBER

\* the two round trips, for the states whose pressure p qualifies
RoundTrips(Qualifies(_)) ==
  /\ (pc = "conv2" /\ cv.call = "Prim1D_to_Cons1D"
        /\ RPos(cv.W.d) /\ Qualifies(cv.W.P)) => cv.back = cv.W
  /\ (pc = "conv2" /\ cv.call = "Cons1D_to_Prim1D"
        /\ RPos(cv.U.d) /\ Qualifies(ImpliedP(GasOf(cv.U, cv.Bx)))) => cv.back = cv.U

AtLeastFloor(p) == IsNum(p) /\ ~RLt(p, TINY_NUMBER)

\* C12 as stated: for every primitive state with rho > 0 and P > 0 the
\* conversion to conserved variables and back returns the same state, and
\* for every conserved state with rho > 0 and implied pressure > 0 the
\* conversion to primitive variables and back returns the same state, the
\* same Bx given to both.
C12_RoundTripPositive == RoundTrips(RPos)

\* C12 amended: the round trips return the same state when the pressure
\* (given, or implied by the conserved state) is at least eps_P.
C12_RoundTripAboveFloor == RoundTrips(AtLeastFloor)

\* both round trips completed under MHD with a normal and a transverse field
C12_Witness ==
  /\ pc = "conv2" /\ cv.call = "Prim1D_to_Cons1D" /\ MHD
  /\ RPos(cv.Bx) /\ RPos(cv.W.By) /\ RPos(cv.W.Vx)
  /\ RGt(cv.W.P, TINY_NUMBER)
  /\ cv.back = cv.W

\* c_f^2 = (1/2)*[(a^2+b^2+bp^2) + sqrt((a^2+b^2+bp^2)^2 - 4*a^2*x)]
FastSq(a2, b2, bp2, x) ==
  RMul(Half, RAdd(Add3(a2, b2, bp2),
                  AsReal(sqrt(RSub(SQR(Add3(a2, b2, bp2)), RMul(R(4), RMul(a2, x)))))))

\* what cfast returns for the state cv.U, the product under the root being x
FastSpeedIs(x(_)) ==
  (pc = "conv2" /\ cv.call = "cfast" /\ RPos(cv.U.d)) =>
    LET a2  == RDiv(RMul(Gamma, ImpliedP(GasOf(cv.U, cv.Bx))), cv.U.d)
        b2  == RDiv(SQR(cv.Bx), cv.U.d)
        bp2 == RDiv(RAdd(SQR(cv.U.By), SQR(cv.U.Bz)), cv.U.d)
    IN  IF MHD THEN cv.cf = sqrt(FastSq(a2, b2, bp2, x(<<b2, bp2>>)))
        ELSE cv.cf = sqrt(a2)

Normal(b) == b[1]
Perp(b) == b[2]

\* C13 as stated: for MHD and rho > 0, cfast returns c_f with c_f^2 =
\* (1/2)*[(a^2+b^2+b_perp^2) + sqrt((a^2+b^2+b_perp^2)^2 - 4*a^2*b_perp^2)],
\* a^2 = gamma*P/rho, b^2 = Bx^2/rho, b_perp^2 = (By^2+Bz^2)/rho; without
\* MHD it returns sqrt(a^2).
C13_FastSpeedPerp == FastSpeedIs(Perp)

\* C13 amended: the product subtracted under the inner root is 4*a^2*b^2,
\* with b^2 = Bx^2/rho the normal component.
C13_FastSpeedNormal == FastSpeedIs(Normal)

\* cfast returned for an MHD state with normal and transverse field and a
\* positive sound speed
C13_Witness ==
  /\ pc = "conv2" /\ cv.call = "cfast" /\ MHD
  /\ RPos(cv.Bx) /\ RPos(cv.U.By)
  /\ RPos(ImpliedP(GasOf(cv.U, cv.Bx)))
  /\ IsNum(cv.cf.sq)

(***************************************************************************)
(* first_order_correction: the hydro variables it leaves                   *)
(***************************************************************************)
\* cell (k,j,i) as the fluxes now stored would leave it: its value after
\* Step 12 minus dt/dx times the difference of the fluxes on its interfaces
FromStoredFluxes(k, j, i) ==
  GasPlus(U12[k][j][i],
          <<Amt(1, dtodx1, x1Flux[k][j][i]), AmtNeg(Amt(1, dtodx1, x1Flux[k][j][i + 1])),
            Amt(2, dtodx2, x2Flux[k][j][i]), AmtNeg(Amt(2, dtodx2, x2Flux[k][j + 1][i])),
            Amt(3, dtodx3, x3Flux[k][j][i]), AmtNeg(Amt(3, dtodx3, x3Flux[k + 1][j][i]))>>)

CarriedByFlux(g) == <<g.d, g.M1, g.M2, g.M3, g.E, g.s>>

\* C14: after first_order_correction has run, in every cell of the
\* correction window [kb+2,kt-2] x [jb+2,jt-2] x [ib+2,it-2] density,
\* momenta, energy and passive scalar equal their value after the gravity
\* source minus the sum over directions of (dt/dx)*(F_R - F_L), F being the
\* flux now stored: the recomputed first-order flux on flagged interfaces,
\* the corrector flux on the others.
C14_FirstOrderUpdate ==
  (pc = "f_check") =>
    \A c \in Cells :
      InCorrCells(c[1], c[2], c[3]) =>
        CarriedByFlux(U[c[1]][c[2]][c[3]])
          = CarriedByFlux(FromStoredFluxes(c[1], c[2], c[3]))

(***************************************************************************)
(* first_order_correction: the states handed to the Riemann solver         *)
(***************************************************************************)
\* the cell of Uhalf on the lower side of interface (k,j,i) of direction dir
LowerHalf(dir, k, j, i) ==
  IF dir = 1 THEN Uhalf[k][j][i - 1] ELSE IF dir = 2 THEN Uhalf[k][j - 1][i]
  ELSE Uhalf[k - 1][j][i]
StoredUl(dir, k, j, i) ==
  IF dir = 1 THEN Ul_x1Face[k][j][i] ELSE IF dir = 2 THEN Ul_x2Face[k][j][i]
  ELSE Ul_x3Face[k][j][i]
StoredUr(dir, k, j, i) ==
  IF dir = 1 THEN Ur_x1Face[k][j][i] ELSE IF dir = 2 THEN Ur_x2Face[k][j][i]
  ELSE Ur_x3Face[k][j][i]

\* C15: at every interface flagged correct_hydro inside the re-flux window
\* the left and right states first_order_correction hands to the Riemann
\* solver are the cell-centred Uhalf values of the two adjacent cells in every
\* component: density, permuted momenta, energy, By and Bz, passive scalar.
C15_FirstOrderStates ==
  (pc = "f_emf") =>
    \A c \in Cells : \A dir \in 1 .. 3 :
      Refluxed(dir, c[1], c[2], c[3]) =>
        /\ StoredUl(dir, c[1], c[2], c[3])
             = GasToCons1D(dir, LowerHalf(dir, c[1], c[2], c[3]))
        /\ StoredUr(dir, c[1], c[2], c[3])
             = GasToCons1D(dir, Uhalf[c[1]][c[2]][c[3]])

(***************************************************************************)
(* first_order_correction: the flags                                       *)
(***************************************************************************)
HydroFlag(dir) ==
  IF dir = 1 THEN correct_hydro_x1 ELSE IF dir = 2 THEN correct_hydro_x2
  ELSE correct_hydro_x3
MhdFlag(dir) ==
  IF dir = 1 THEN correct_mhd_x1 ELSE IF dir = 2 THEN correct_mhd_x2 ELSE correct_mhd_x3

\* the cell n steps from c along direction dir (1 is i, 2 is j, 3 is k)
Shift(c, dir, n) ==
  IF dir = 1 THEN <<c[1], c[2], c[3] + n>>
  ELSE IF dir = 2 THEN <<c[1], c[2] + n, c[3]>> ELSE <<c[1] + n, c[2], c[3]>>
Cyc(dir) == IF dir = 3 THEN 1 ELSE dir + 1

\* the two interfaces of each transverse direction whose flux the stencil of
\* edge EMF number e at c reads: with a = Cyc(e) and b = Cyc(a), the a-flux at
\* c and one step down along b, the b-flux at c and one step down along a
EmfReads(e, c) ==
  {<<Cyc(e), c>>, <<Cyc(e), Shift(c, Cyc(Cyc(e)), -1)>>,
   <<Cyc(Cyc(e)), c>>, <<Cyc(Cyc(e)), Shift(c, Cyc(e), -1)>>}
\* the four face fields the CT update changes with that EMF
EmfBorders(e, c) ==
  {f \in (1 .. 3) \X Cells :
     /\ f[1] # e
     /\ \/ f[2] = c
        \/ f[2] = Shift(c, IF f[1] = Cyc(e) THEN Cyc(Cyc(e)) ELSE Cyc(e), -1)}

Flagged(f, c) == HasFlag(Ineg[c[1]][c[2]][c[3]], f)

\* C16: after flag propagation, every edge EMF whose stencil reads the flux
\* of an interface flagged correct_hydro inside the re-flux window has all
\* four face fields that border the edge (those inside the correction window)
\* flagged with the matching correct_mhd bit.
C16_FlagClosure ==
  (FlagsDone /\ MHD) =>
    \A c \in Cells : \A e \in 1 .. 3 :
      (\E r \in EmfReads(e, c) : r[2] \in Cells /\ Refluxed(r[1], r[2][1], r[2][2], r[2][3]))
        => \A f \in EmfBorders(e, c) :
             (f[2] \in Cells /\ InCorrFaces(f[2][1], f[2][2], f[2][3]))
               => Flagged(MhdFlag(f[1]), f[2])

\* a negative cell in the ghost layer next to the active cells, its flags set
C16_Witness ==
  /\ FlagsDone /\ MHD /\ negcount = 2
  /\ \E c \in Cells :
       /\ ~Active(c[1], c[2], c[3])
       /\ RLe0(U[c[1]][c[2]][c[3]].d)
       /\ Refluxed(1, c[1], c[2], c[3] + 1)
       /\ Flagged(correct_mhd_x3, <<c[1] + 1, c[2], c[3] + 1>>)

\* the faces a flagged interface of direction n at c makes the propagation
\* flag, <<face direction, face>>: the n-faces one step up and down in both
\* transverse directions, and the faces of the transverse directions a =
\* Cyc(n) and b = Cyc(a) at the given steps <<along n, along the face's own
\* direction>>
Targets(n, c, stepsA, stepsB) ==
  {<<n, Shift(c, Cyc(n), -1)>>, <<n, Shift(c, Cyc(n), 1)>>,
   <<n, Shift(c, Cyc(Cyc(n)), -1)>>, <<n, Shift(c, Cyc(Cyc(n)), 1)>>}
  \cup {<<Cyc(n), Shift(Shift(c, n, s[1]), Cyc(n), s[2])>> : s \in stepsA}
  \cup {<<Cyc(Cyc(n)), Shift(Shift(c, n, s[1]), Cyc(Cyc(n)), s[2])>> : s \in stepsB}

PropagationSets(stepsA, stepsB) ==
  (FlagsDone /\ MHD) =>
    \A c \in Cells : \A n \in 1 .. 3 :
      Flagged(HydroFlag(n), c) =>
        \A f \in Targets(n, c, stepsA, stepsB) : Flagged(MhdFlag(f[1]), f[2])

\* C17 as stated: an interface flagged correct_hydro_x1 at (k,j,i) has
\* correct_mhd_x1 set at (k-1,j,i), (k+1,j,i), (k,j-1,i), (k,j+1,i),
\* correct_mhd_x3 at (k,j,i-1), (k-1,j,i-1), (k+1,j,i-1) and correct_mhd_x2 at
\* (k,j,i-1), (k,j+1,i-1); x2 and x3 by cyclic permutation.
C17_PropagationAsStated ==
  PropagationSets({<<-1, 0>>, <<-1, 1>>}, {<<-1, 0>>, <<-1, -1>>, <<-1, 1>>})

\* C17 amended: correct_mhd_x3 is set at (k,j,i-1), (k+1,j,i), (k+1,j,i-1) and
\* correct_mhd_x2 at (k,j,i-1), (k,j+1,i), (k,j+1,i-1), with correct_mhd_x1 as
\* stated; x2 and x3 by cyclic permutation.
C17_PropagationTable ==
  PropagationSets({<<-1, 0>>, <<0, 1>>, <<-1, 1>>}, {<<-1, 0>>, <<0, 1>>, <<-1, 1>>})

\* the right x1 interface of a negative cell: the cell above the interface
\* is not negative, and its x3 and x2 faces are flagged by propagation alone
C17_Witness ==
  /\ FlagsDone /\ MHD /\ negcount = 1
  /\ \E c \in Cells :
       /\ Flagged(correct_hydro_x1, c)
       /\ ~RLe0(U[c[1]][c[2]][c[3]].d)
       /\ Flagged(correct_mhd_x3, <<c[1] + 1, c[2], c[3]>>)
       /\ ~Flagged(correct_hydro_x3, <<c[1] + 1, c[2], c[3]>>)
       /\ ~Flagged(correct_mhd_x3, <<c[1] - 1, c[2], c[3] - 1>>)

(***************************************************************************)
(* The corner EMFs                                                         *)
(***************************************************************************)
FluxAt(n, c) ==
  IF n = 1 THEN x1Flux[c[1]][c[2]][c[3]]
  ELSE IF n = 2 THEN x2Flux[c[1]][c[2]][c[3]] ELSE x3Flux[c[1]][c[2]][c[3]]
CcAt(e, c) ==
  IF e = 1 THEN emf1_cc[c[1]][c[2]][c[3]]
  ELSE IF e = 2 THEN emf2_cc[c[1]][c[2]][c[3]] ELSE emf3_cc[c[1]][c[2]][c[3]]
EmfAt(e, c) ==
  IF e = 1 THEN emf1[c[1]][c[2]][c[3]]
  ELSE IF e = 2 THEN emf2[c[1]][c[2]][c[3]] ELSE emf3[c[1]][c[2]][c[3]]

\* the edges the assembler of emf e visits: all but the first index in the
\* two transverse directions, all but the first and the last along e
EmfLoop(e, c) ==
  /\ InLoop(c[1], c[2], c[3], kl + 1, ku, jl + 1, ju, il + 1, iu)
  /\ e = 1 => c[3] <= iu - 1
  /\ e = 2 => c[2] <= ju - 1
  /\ e = 3 => c[1] <= ku - 1

\* EMF e as the fluxes of the two transverse directions a = Cyc(e) and
\* b = Cyc(a) carry it: minus the By-flux of direction a, the Bz-flux of b
FaceEa(e, c) == RNeg(FluxAt(Cyc(e), c).By)
FaceEb(e, c) == FluxAt(Cyc(Cyc(e)), c).Bz

\* the four mass fluxes that select the upwind side at edge c of emf e
Selectors(e, c) ==
  {FluxAt(Cyc(e), Shift(c, Cyc(Cyc(e)), -1)).d, FluxAt(Cyc(e), c).d,
   FluxAt(Cyc(Cyc(e)), Shift(c, Cyc(e), -1)).d, FluxAt(Cyc(Cyc(e)), c).d}

\* the value for sel > 0, the value for sel < 0, their mean for sel = 0
MeanUpwind(sel, pos, neg) ==
  IF RPos(sel) THEN pos ELSE IF RNegative(sel) THEN neg
  ELSE RMul(Half, RAdd(pos, neg))

\* the four face EMFs around the edge and the four derivative corrections,
\* each the face EMF minus the cell-centred EMF on the upwind side
UpwindEmf(e, c) ==
  LET a  == Cyc(e)
      b  == Cyc(Cyc(e))
      ca == Shift(c, a, -1)
      cb == Shift(c, b, -1)
      cab == Shift(Shift(c, a, -1), b, -1)
      de_lb == MeanUpwind(FluxAt(a, cb).d,
                          RSub(FaceEb(e, ca), CcAt(e, cab)), RSub(FaceEb(e, c), CcAt(e, cb)))
      de_rb == MeanUpwind(FluxAt(a, c).d,
                          RSub(FaceEb(e, ca), CcAt(e, ca)), RSub(FaceEb(e, c), CcAt(e, c)))
      de_la == MeanUpwind(FluxAt(b, ca).d,
                          RSub(FaceEa(e, cb), CcAt(e, cab)), RSub(FaceEa(e, c), CcAt(e, ca)))
      de_ra == MeanUpwind(FluxAt(b, c).d,
                          RSub(FaceEa(e, cb), CcAt(e, cb)), RSub(FaceEa(e, c), CcAt(e, c)))
  IN  RAdd(RMul(Quarter, RAdd(RAdd(FaceEb(e, c), FaceEb(e, ca)),
                              RAdd(FaceEa(e, c), FaceEa(e, cb)))),
           RMul(Quarter, RAdd(RAdd(de_la, de_ra), RAdd(de_lb, de_rb))))

EmfsDone == pc = "s5" /\ MHD

\* C19: in each corner-EMF assembler, whenever a mass flux that selects one
\* of the four derivative corrections is exactly zero, that correction is the
\* arithmetic mean of the value used for a positive and the value used for a
\* negative flux.
C19_ZeroFluxMean ==
  EmfsDone =>
    \A c \in Cells : \A e \in 1 .. 3 :
      (EmfLoop(e, c) /\ Zero \in Selectors(e, c)) => EmfAt(e, c) = UpwindEmf(e, c)

\* C20: where every selecting mass flux is non-zero, emf1 is a quarter of
\* the four face EMFs plus a quarter of the four derivative corrections, each
\* the transverse face flux minus the cell-centred EMF on the upwind side, and
\* emf2 and emf3 are the images of that expression under 1->2->3->1.
C20_UpwindFormula ==
  EmfsDone =>
    \A c \in Cells : \A e \in 1 .. 3 :
      (EmfLoop(e, c) /\ Zero \notin Selectors(e, c)) => EmfAt(e, c) = UpwindEmf(e, c)

\* an edge of emf2 and one of emf3 whose four selecting fluxes are of both
\* signs, none zero, and whose corrections do not cancel
C20_Witness ==
  /\ EmfsDone
  /\ \A e \in 2 .. 3 :
       \E c \in Cells :
         /\ EmfLoop(e, c) /\ Zero \notin Selectors(e, c)
         /\ One \in Selectors(e, c) /\ R(-1) \in Selectors(e, c)
         /\ EmfAt(e, c) # RMul(Quarter, RAdd(RAdd(FaceEb(e, c), FaceEb(e, Shift(c, Cyc(e), -1))),
                                             RAdd(FaceEa(e, c),
                                                  FaceEa(e, Shift(c, Cyc(Cyc(e)), -1)))))

(***************************************************************************)
(* The interface fields across first_order_correction                      *)
(***************************************************************************)
\* the field of the direction-n interface at c, in the block and on entry
FieldAt(n, c) ==
  IF n = 1 THEN B1i[c[1]][c[2]][c[3]]
  ELSE IF n = 2 THEN B2i[c[1]][c[2]][c[3]] ELSE B3i[c[1]][c[2]][c[3]]
FieldIn(n, c) ==
  IF n = 1 THEN in.B1i[c[1]][c[2]][c[3]]
  ELSE IF n = 2 THEN in.B2i[c[1]][c[2]][c[3]] ELSE in.B3i[c[1]][c[2]][c[3]]

\* the field on entry advanced by dt*curl of the corner EMFs as they stand
FullStepField(n, c) ==
  IF n = 1 THEN CT1(FieldIn(1, c), dtodx2, dtodx3, emf2, emf3, c[1], c[2], c[3])
  ELSE IF n = 2 THEN CT2(FieldIn(2, c), dtodx1, dtodx3, emf1, emf3, c[1], c[2], c[3])
  ELSE CT3(FieldIn(3, c), dtodx1, dtodx2, emf1, emf2, c[1], c[2], c[3])

\* corner EMF e at c is what its assembler makes of the fluxes as they stand
Assembled(e, c) ==
  EmfAt(e, c) = (IF e = 1 THEN integrate_emf1_corner(c[1], c[2], c[3])
                 ELSE IF e = 2 THEN integrate_emf2_corner(c[1], c[2], c[3])
                 ELSE integrate_emf3_corner(c[1], c[2], c[3]))

\* the four corner EMFs around the direction-n interface at c
AroundFace(n, c) ==
  {<<Cyc(n), c>>, <<Cyc(n), Shift(c, Cyc(Cyc(n)), 1)>>,
   <<Cyc(Cyc(n)), c>>, <<Cyc(Cyc(n)), Shift(c, Cyc(n), 1)>>}

\* the interfaces whose field the correction reverts and re-applies
FlaggedField(n, c) ==
  InCorrFaces(c[1], c[2], c[3]) /\ HasFlag(Ineg[c[1]][c[2]][c[3]], MhdFlag(n))

\* C18: for every face field flagged correct_mhd inside the correction
\* window, the revert takes off exactly what Step 11 added (the field is the
\* one on entry again), the four EMFs around the face are re-assembled from
\* the fluxes as corrected before the update is re-applied, and the final
\* field is the field on entry minus dt*curl(E) of the EMFs as they stand.
C18_FieldReapplied ==
  MHD =>
    \A c \in Cells : \A n \in 1 .. 3 :
      FlaggedField(n, c) =>
        /\ pc \in {"f_reflux", "f_emf", "f_redo"} => FieldAt(n, c) = FieldIn(n, c)
        /\ pc \in {"f_redo", "f_check"} => \A x \in AroundFace(n, c) : Assembled(x[1], x[2])
        /\ pc = "f_check" => FieldAt(n, c) = FullStepField(n, c)

\* a flagged face whose field the re-applied update changes, one of its four
\* EMFs reading the flux of an interface the correction recomputed
C18_Witness ==
  /\ MHD /\ pc = "f_check"
  /\ \E c \in Cells : \E n \in 1 .. 3 :
       /\ FlaggedField(n, c)
       /\ FieldAt(n, c) # FieldIn(n, c)
       /\ \E x \in AroundFace(n, c) : \E r \in EmfReads(x[1], x[2]) :
            Refluxed(r[1], r[2][1], r[2][2], r[2][3])

(***************************************************************************)
(* What the corrector consumes                                             *)
(***************************************************************************)
\* the direction-n interface at c bounds an active cell
FaceOfActive(n, c) ==
  \/ Active(c[1], c[2], c[3])
  \/ LET l == Shift(c, n, -1) IN Active(l[1], l[2], l[3])

\* the steps of integrate_3d_vl up to the reconstruction and the corrector
\* fluxes, and up to the corner EMFs of the corrector
BeforeStep9 == {"p0", "s1", "s2", "s3", "s4", "s4c", "s5", "s6", "s7", "s7b", "s7c", "s9"}
BeforeStep11 == BeforeStep9 \cup {"s10", "s11c", "s11"}

\* the step that wrote the flux of the direction-n interface at c, corner EMF
\* e at c, last
FluxBy(n, c) ==
  IF n = 1 THEN writtenBy.x1Flux[c[1]][c[2]][c[3]]
  ELSE IF n = 2 THEN writtenBy.x2Flux[c[1]][c[2]][c[3]]
  ELSE writtenBy.x3Flux[c[1]][c[2]][c[3]]
EmfBy(e, c) ==
  IF e = 1 THEN writtenBy.emf1[c[1]][c[2]][c[3]]
  ELSE IF e = 2 THEN writtenBy.emf2[c[1]][c[2]][c[3]]
  ELSE writtenBy.emf3[c[1]][c[2]][c[3]]

\* the four cells whose cell-centred EMF the stencil of edge EMF e at c reads
EmfCcReads(e, c) ==
  {c, Shift(c, Cyc(e), -1), Shift(c, Cyc(Cyc(e)), -1),
   Shift(Shift(c, Cyc(e), -1), Cyc(Cyc(e)), -1)}

\* the predictor advanced the hydro variables and the cell-centred field of
\* cell m of the strip of direction dir through (k,j,i)
Advanced(dir, k, j, i, m) ==
  LET c == IF dir = 1 THEN <<k, j, m>> ELSE IF dir = 2 THEN <<k, m, i>> ELSE <<m, j, i>>
  IN  /\ writtenBy.UhalfH[c[1]][c[2]][c[3]] = "Step6"
      /\ MHD => writtenBy.UhalfB[c[1]][c[2]][c[3]] = "Step5"

\* Ul[n] and Ur[n] of a strip as lr_states makes them when every cell the
\* predictor did not advance holds no data
AdvancedUl(dir, k, j, i, n, lo, hi) ==
  Prim1D_to_Cons1D(
    AsPrim1D(lr_states_Wl(
      [m \in StripIdx |-> IF Advanced(dir, k, j, i, m) THEN W(dir, k, j, i, m) ELSE StaleVec],
      [m \in StripIdx |-> IF Advanced(dir, k, j, i, m) THEN Bxc(dir, k, j, i, m) ELSE Stale],
      Zero, lo, hi, n)),
    Bxc(dir, k, j, i, n))
AdvancedUr(dir, k, j, i, n, lo, hi) ==
  Prim1D_to_Cons1D(
    AsPrim1D(lr_states_Wr(
      [m \in StripIdx |-> IF Advanced(dir, k, j, i, m) THEN W(dir, k, j, i, m) ELSE StaleVec],
      [m \in StripIdx |-> IF Advanced(dir, k, j, i, m) THEN Bxc(dir, k, j, i, m) ELSE Stale],
      Zero, lo, hi, n)),
    Bxc(dir, k, j, i, n))

\* the reconstruction of the interface states of direction n at c reads
\* Uhalf only where the predictor advanced it
FromAdvanced(n, c) ==
  LET k == c[1]
      j == c[2]
      i == c[3]
      at == IF n = 1 THEN i ELSE IF n = 2 THEN j ELSE k
      lo == (IF n = 1 THEN ib ELSE IF n = 2 THEN jb ELSE kb) + 1
      hi == (IF n = 1 THEN it ELSE IF n = 2 THEN jt ELSE kt) - 1
  IN  /\ StoredUl(n, k, j, i) = AdvancedUl(n, k, j, i, at, lo, hi)
      /\ StoredUr(n, k, j, i) = AdvancedUr(n, k, j, i, at, lo, hi)
      /\ ~IsStale(StoredUl(n, k, j, i).d) /\ ~IsStale(StoredUr(n, k, j, i).d)

\* corner EMF e at c is assembled by the corrector from corrector fluxes
\* (second-order ones or those of the correction) and half-step cell-centred
\* EMFs alone
FromCorrector(e, c) ==
  /\ EmfBy(e, c) \in {"Step11", "Recorner"}
  /\ ~IsStale(EmfAt(e, c))
  /\ \A r \in EmfReads(e, c) : FluxBy(r[1], r[2]) \in {"Step9", "Reflux"}
  /\ \A q \in EmfCcReads(e, c) : writtenBy.cc[q[1]][q[2]][q[3]] = "Step10"

\* C21: everything the corrector consumes for an active cell or a face of an
\* active cell was produced earlier in the same step by the intended phase:
\* the reconstruction reads Uhalf only in cells the predictor advanced, the
\* fluxes through the faces are corrector fluxes, and every corner EMF
\* entering the full-step CT update or re-assembled by the correction is
\* built from corrector fluxes and half-step reference EMFs alone.
C21_CorrectorInputs ==
  \A c \in Cells : \A n \in 1 .. 3 :
    FaceOfActive(n, c) =>
      /\ pc = "s9" => FromAdvanced(n, c)
      /\ pc \notin BeforeStep9 => FluxBy(n, c) \in {"Step9", "Reflux"}
      /\ (MHD /\ pc \notin BeforeStep11) =>
            \A x \in AroundFace(n, c) : FromCorrector(x[1], x[2])

\* the full-step CT update has changed the field of a face of an active cell,
\* while away from the active cells a corner EMF of the corrector was
\* assembled from a flux the predictor left behind
C21_Witness ==
  /\ MHD /\ pc = "s12"
  /\ B1i[ks][js][is] # in.B1i[ks][js][is]
  /\ \E c \in Cells : \E e \in 1 .. 3 :
       /\ EmfBy(e, c) = "Step11"
       /\ \E r \in EmfReads(e, c) : FluxBy(r[1], r[2]) \in {"Step1", "Step2", "Step3"}

(***************************************************************************)
(* The strips handed to the reconstruction                                 *)
(***************************************************************************)
\* cell c lies on a strip of direction n that Step 7 converts to primitive
\* variables over its whole length and hands to lr_states
OnStrip(n, c) ==
  /\ n # 3 => (kb <= c[1] /\ c[1] <= kt)
  /\ n # 2 => (jb <= c[2] /\ c[2] <= jt)
  /\ n # 1 => (ib <= c[3] /\ c[3] <= it)

PositiveInput == \A c \in Cells : RPos(in.U[c[1]][c[2]][c[3]].d)

\* C22: for every input block with density > 0 in all cells and any fluxes
\* the Riemann solver returns, every cell of each strip of Uhalf that the
\* corrector converts to primitives and hands to lr_states has density > 0.
C22_StripDensityPositive ==
  (pc \in {"s7", "s7b", "s7c"} /\ PositiveInput) =>
    \A c \in Cells : \A n \in 1 .. 3 : OnStrip(n, c) => RPos(Uhalf[c[1]][c[2]][c[3]].d)

(***************************************************************************)
(* The gravitational source terms                                          *)
(***************************************************************************)
\* the energy the corrector's gravity stage added to cell c
GravEnergyAdded(c) ==
  RSub(U12[c[1]][c[2]][c[3]].E, in.U[c[1]][c[2]][c[3]].E)

\* (dt/dx)*[F_L.d*(phi_l - phi_c) + F_R.d*(phi_c - phi_r)] summed over the
\* directions, with the mass fluxes as the flux arrays hold them
GravEnergyOfFluxes(c) ==
  RSub(GravSource(in.U[c[1]][c[2]][c[3]], Uhalf[c[1]][c[2]][c[3]].d,
                  dtodx1, dtodx2, dtodx3, c[1], c[2], c[3]).E,
       in.U[c[1]][c[2]][c[3]].E)

\* C23: the corrector's gravitational energy source in each active cell is
\* that expression with the final corrector mass fluxes, those that
\* determine the cell's final density, also on interfaces whose flux
\* first_order_correction replaced.
C23_GravityWithFinalFluxes ==
  (pc \in {"s15", "done"} /\ StaticGravPot # NULL) =>
    \A c \in ActiveCells : GravEnergyAdded(c) = GravEnergyOfFluxes(c)

\* the potential at the centre of cell c (h = 0) and at the centres of its
\* lower (h = -1) and upper (h = 1) face in direction n
PhiAt(c, n, h) ==
  LET off(d, dx) == IF d = n THEN RMul(RMul(R(h), Half), dx) ELSE Zero
  IN  Phi(RAdd(cc_pos(1, c[3]), off(1, dx1)), RAdd(cc_pos(2, c[2]), off(2, dx2)),
          RAdd(cc_pos(3, c[1]), off(3, dx3)))

\* -q*(phi_r - phi_l)*rho, and q*[F_L.d*(phi_l - phi_c) + F_R.d*(phi_c - phi_r)]
\* with the mass fluxes the arrays hold
GravDM(c, n, q, rho) == RNeg(RMul(RMul(q, RSub(PhiAt(c, n, 1), PhiAt(c, n, -1))), rho))
GravDE(c, n, q) ==
  RMul(q, RAdd(RMul(FluxAt(n, c).d, RSub(PhiAt(c, n, -1), PhiAt(c, n, 0))),
               RMul(FluxAt(n, Shift(c, n, 1)).d, RSub(PhiAt(c, n, 0), PhiAt(c, n, 1)))))

\* cell g with those increments for a step of f*dt from density rho
WithGravity(g, c, f, rho) ==
  [g EXCEPT
    !.M1 = RAdd(@, GravDM(c, 1, RMul(f, dtodx1), rho)),
    !.M2 = RAdd(@, GravDM(c, 2, RMul(f, dtodx2), rho)),
    !.M3 = RAdd(@, GravDM(c, 3, RMul(f, dtodx3), rho)),
    !.E  = RAdd(RAdd(RAdd(@, GravDE(c, 1, RMul(f, dtodx1))), GravDE(c, 2, RMul(f, dtodx2))),
                GravDE(c, 3, RMul(f, dtodx3)))]

\* the cells of the two gravity loops, and the six interfaces of a cell
GravCells ==
  {c \in Cells : InLoop(c[1], c[2], c[3], kl + 1, ku - 1, jl + 1, ju - 1, il + 1, iu - 1)}
FacesOf(c) == {<<n, c>> : n \in 1 .. 3} \cup {<<n, Shift(c, n, 1)>> : n \in 1 .. 3}

\* Uhalf of cell c before the gravity stage of the predictor: the input with
\* the half-step cell-centred field and the half-step flux differences
HalfWithoutGravity(c) ==
  HydroUpdate([in.U[c[1]][c[2]][c[3]] EXCEPT
                 !.B1c = Uhalf[c[1]][c[2]][c[3]].B1c,
                 !.B2c = Uhalf[c[1]][c[2]][c[3]].B2c,
                 !.B3c = Uhalf[c[1]][c[2]][c[3]].B3c],
              RMul(Half, dtodx1), RMul(Half, dtodx2), RMul(Half, dtodx3), c[1], c[2], c[3])

\* after Step 6 every cell of the loop holds the half-step state plus the
\* increments for dt/2 from the input density, computed while the flux arrays
\* hold the predictor fluxes; without a potential, the half-step state
PredictorGravity ==
  pc = "s7" =>
    \A c \in GravCells :
      /\ \A f \in FacesOf(c) : FluxBy(f[1], f[2]) \in {"Step1", "Step2", "Step3"}
      /\ Uhalf[c[1]][c[2]][c[3]] =
           IF StaticGravPot # NULL
           THEN WithGravity(HalfWithoutGravity(c), c, Half, in.U[c[1]][c[2]][c[3]].d)
           ELSE HalfWithoutGravity(c)

\* after Step 12 every cell of the loop holds the input plus the increments
\* for dt from the half-step density; without a potential, the input
CorrectorGravity ==
  pc = "s13" =>
    \A c \in GravCells :
      U[c[1]][c[2]][c[3]] =
        IF StaticGravPot # NULL
        THEN WithGravity(in.U[c[1]][c[2]][c[3]], c, One, Uhalf[c[1]][c[2]][c[3]].d)
        ELSE in.U[c[1]][c[2]][c[3]]

\* C24 as stated: with a potential registered the predictor gravity stage
\* adds dM = -(1/2)(dt/dx)(phi_r - phi_l)rho^n and dE = (1/2)(dt/dx)[F_L.d
\* (phi_l - phi_c) + F_R.d(phi_c - phi_r)] with the predictor fluxes, none of
\* them overwritten yet; the corrector stage adds the same without the 1/2
\* with rho^(n+1/2) and the corrector fluxes; without a potential neither
\* stage changes a value.
C24_GravityStagesAsStated ==
  /\ PredictorGravity
  /\ CorrectorGravity
  /\ (pc = "s13" /\ StaticGravPot # NULL) =>
       \A c \in GravCells : \A f \in FacesOf(c) : FluxBy(f[1], f[2]) = "Step9"

\* C24 with the corrector fluxes where Step 9 computes them: the six
\* interfaces of every cell that Steps 13a-c update carry corrector fluxes;
\* in the ghost cells outside, the corrector stage uses what the flux arrays
\* hold there, fluxes of the predictor included.
C24_GravityStages ==
  /\ PredictorGravity
  /\ CorrectorGravity
  /\ (pc = "s13" /\ StaticGravPot # NULL) =>
       \A c \in GravCells : \A f \in FacesOf(c) :
         IF Updated(c[1], c[2], c[3]) THEN FluxBy(f[1], f[2]) = "Step9"
         ELSE FluxBy(f[1], f[2]) \in {"Step1", "Step2", "Step3", "Step9"}

\* a potential is registered and the corrector stage has changed the
\* momentum and the energy of an active cell, by other amounts than with the
\* input density
C24_Witness ==
  /\ pc = "s13" /\ StaticGravPot # NULL
  /\ \E c \in ActiveCells :
       /\ U[c[1]][c[2]][c[3]].M1 # in.U[c[1]][c[2]][c[3]].M1
       /\ U[c[1]][c[2]][c[3]].E # in.U[c[1]][c[2]][c[3]].E
       /\ Uhalf[c[1]][c[2]][c[3]].d # in.U[c[1]][c[2]][c[3]].d
       /\ Uhalf[c[1]][c[2]][c[3]] # HalfWithoutGravity(c)

(***************************************************************************)
(* The stored interface states and the field the solver receives           *)
(***************************************************************************)
\* the primitive states lr_states returns for the direction-n interface at c
Reconstructed(n, c) ==
  LET k == c[1]
      j == c[2]
      i == c[3]
      at == IF n = 1 THEN i ELSE IF n = 2 THEN j ELSE k
      lo == (IF n = 1 THEN ib ELSE IF n = 2 THEN jb ELSE kb) + 1
      hi == (IF n = 1 THEN it ELSE IF n = 2 THEN jt ELSE kt) - 1
      Ws == [m \in StripIdx |-> W(n, k, j, i, m)]
      Bs == [m \in StripIdx |-> Bxc(n, k, j, i, m)]
  IN  [l |-> AsPrim1D(lr_states_Wl(Ws, Bs, Zero, lo, hi, at)),
       r |-> AsPrim1D(lr_states_Wr(Ws, Bs, Zero, lo, hi, at))]

\* the interface-normal field Step 9 passes to the Riemann solver there
SolverBx(n, c) ==
  IF ~MHD THEN Zero
  ELSE IF n = 1 THEN B1_x1Face[c[1]][c[2]][c[3]]
  ELSE IF n = 2 THEN B2_x2Face[c[1]][c[2]][c[3]] ELSE B3_x3Face[c[1]][c[2]][c[3]]

\* C25: in the corrector the stored left and right states of an interface
\* are built with the interface-normal field the Riemann solver receives for
\* it: converted back to primitives with that field, each gives the
\* reconstructed pressure.
C25_StoredStatesNormalField ==
  pc = "s9" =>
    \A c \in Cells : \A n \in 1 .. 3 :
      FaceOfActive(n, c) =>
        /\ Cons1D_to_Prim1D(StoredUl(n, c[1], c[2], c[3]), SolverBx(n, c)).P
             = Reconstructed(n, c).l.P
        /\ Cons1D_to_Prim1D(StoredUr(n, c[1], c[2], c[3]), SolverBx(n, c)).P
             = Reconstructed(n, c).r.P


\* every followed row of every sweep is through
RowsDone == sw # NULL /\ \A dir \in 1 .. 3 : sw.at[dir] = 2 * MaxRows
\* what the order x1, x2, x3 leaves at interface n of row s of direction dir
SeqPredictor(dir, s, n) ==
  LET c == RowAt(dir, s, n)
  IN  GET_FLUXES(NoPert, dir, c[1], c[2], c[3],
                 IF MHD THEN GridAt(Bi(dir), c) ELSE Zero,
                 GasToCons1D(dir, GridAt(U, RowAt(dir, s, n - 1))),
                 GasToCons1D(dir, GridAt(U, c)))
SeqUl(dir, s, n) ==
  LET c == RowCell(dir, s)
  IN  StripUl(dir, c[1], c[2], c[3], n, LoCorr(dir) + 1, HiCorr(dir) - 1)
SeqUr(dir, s, n) ==
  LET c == RowCell(dir, s)
  IN  StripUr(dir, c[1], c[2], c[3], n, LoCorr(dir) + 1, HiCorr(dir) - 1)
SeqCorrector(dir, s, n) ==
  LET c == RowAt(dir, s, n)
  IN  GET_FLUXES(NoPert, dir, c[1], c[2], c[3],
                 IF MHD THEN GridAt(BFace(dir), c) ELSE Zero,
                 GridAt(UlFace(dir), c), GridAt(UrFace(dir), c))
SameAsSequential ==
  \A dir \in 1 .. 3, s \in 0 .. MaxRows - 1 :
    /\ sw.phase = "predictor" =>
         \A n \in LoAll(dir) + 1 .. HiAll(dir) :
           /\ GridAt(Flux(dir), RowAt(dir, s, n)) = SeqPredictor(dir, s, n)
           /\ MHD => GridAt(BFace(dir), RowAt(dir, s, n)) = GridAt(Bi(dir), RowAt(dir, s, n))
    /\ sw.phase = "reconstruct" =>
         \A n \in LoCorr(dir) + 1 .. HiCorr(dir) :
           /\ GridAt(UlFace(dir), RowAt(dir, s, n)) = SeqUl(dir, s, n)
           /\ GridAt(UrFace(dir), RowAt(dir, s, n)) = SeqUr(dir, s, n)
    /\ sw.phase = "corrector" =>
         \A n \in LoCorr(dir) + 1 .. HiCorr(dir) :
           GridAt(Flux(dir), RowAt(dir, s, n)) = SeqCorrector(dir, s, n)
\* the 3-D arrays, as against the 1-D work arrays
Arrays3D ==
  UNION {{FaceName(dir), FluxName(dir), UlName(dir), UrName(dir)} : dir \in 1 .. 3}
WritesDisjoint(names) ==
  \A a \in 1 .. 3, b \in 1 .. 3 :
    a # b => (sw.wrote[a] \cap sw.wrote[b]) \cap names = {}

\* C26 as stated: within one phase the x1, x2 and x3 sweeps, run in any
\* interleaving, write disjoint storage and leave the fluxes and stored
\* interface states of the order x1, x2, x3.
C26_AnyInterleaving ==
  RowsDone => /\ \A a \in 1 .. 3, b \in 1 .. 3 :
                   a # b => sw.wrote[a] \cap sw.wrote[b] = {}
              /\ SameAsSequential

\* C26: within one phase the x1, x2 and x3 sweeps write disjoint 3-D arrays;
\* the corrector flux sweeps leave the fluxes of the order x1, x2, x3 in any
\* interleaving, the predictor flux sweeps and the reconstruction sweeps do
\* so whenever no sweep fills the shared 1-D work arrays between another
\* sweep's filling and using them.
C26_SweepsInAnyOrder ==
  RowsDone => /\ WritesDisjoint(Arrays3D)
              /\ (sw.phase = "corrector" \/ ~sw.mixed) => SameAsSequential

\* the reconstruction sweeps ran whole, x3 first
C26_Witness ==
  /\ RowsDone
  /\ sw.phase = "reconstruct"
  /\ sw.first = 3
  /\ ~sw.mixed
  /\ MHD


\* the steps of first_order_correction that move data, and all its steps
CorrSteps == {"f_undo", "f_reflux", "f_emf", "f_redo"}
InCorrection == CorrSteps \cup {"f_detect", "f_prop", "f_check"}
\* one of the six interfaces of cell c carries a correct_hydro flag
CellFlagged(c) ==
  \E f \in FacesOf(c) : f[2] \in Cells /\ HasFlag(GridAt(Ineg, f[2]), HydroFlag(f[1]))
FaceFlagged(n, c) == c \in Cells /\ HasFlag(GridAt(Ineg, c), MhdFlag(n))
\* one of the four face fields that border edge c of emf e is flagged
EdgeFlagged(e, c) ==
  \/ FaceFlagged(Cyc(e), c) \/ FaceFlagged(Cyc(e), Shift(c, Cyc(Cyc(e)), -1))
  \/ FaceFlagged(Cyc(Cyc(e)), c) \/ FaceFlagged(Cyc(Cyc(e)), Shift(c, Cyc(e), -1))
NoNegCell == \A c \in Cells : ~NegCell(c[1], c[2], c[3])

\* C27: when no cell of the detection window has density <= 0,
\* first_order_correction returns after the detection having changed no cell,
\* face field, flux, stored L/R state or EMF; when it runs, none of its steps
\* changes a cell without a correct_hydro flag on its six interfaces, a face
\* field without a correct_mhd flag, or an EMF with no flagged face field
\* among the four around it.
C27_CorrectionFrame ==
  [][/\ pc \in {"f_detect", "f_prop", "f_check"} =>
          UNCHANGED <<U, bVars, fluxVars, lrVars, emfVars>>
     /\ pc = "f_detect" /\ NoNegCell => pc' = "s15"
     /\ pc \in CorrSteps =>
          \A c \in Cells :
            /\ ~CellFlagged(c) => GridAt(U, c)' = GridAt(U, c)
            /\ \A n \in 1 .. 3 :
                 /\ ~FaceFlagged(n, c) => FieldAt(n, c)' = FieldAt(n, c)
                 /\ MHD /\ ~EdgeFlagged(n, c) => EmfAt(n, c)' = EmfAt(n, c)]_vars

\* the correction has run in an MHD step; inside its windows it left alone a
\* cell, a face field and an EMF, and changed others
C27_Witness ==
  /\ pc = "f_check"
  /\ MHD
  /\ \E c \in Cells :
       InCorrCells(c[1], c[2], c[3]) /\ ~CellFlagged(c)
  /\ \E c \in Cells : InCorrCells(c[1], c[2], c[3]) /\ CellFlagged(c)
  /\ \E c \in Cells, n \in 1 .. 3 :
       InCorrFaces(c[1], c[2], c[3]) /\ ~FaceFlagged(n, c)
  /\ \E c \in Cells : Reemf1(c[1], c[2], c[3])
  /\ \E c \in Cells :
       InLoop(c[1], c[2], c[3], kb + 2, kt, jb + 2, jt, ib + 2, it - 1) /\ ~EdgeFlagged(1, c)


\* the relabelling of direction dir: (Mx,My,Mz) = (M_p[1], M_p[2], M_p[3]) and
\* (By,Bz) = (B_q[1]c, B_q[2]c)
Perm(dir) == IF dir = 1 THEN <<1, 2, 3>> ELSE IF dir = 2 THEN <<2, 3, 1>> ELSE <<3, 1, 2>>
FieldPair(dir) == IF dir = 1 THEN <<2, 3>> ELSE IF dir = 2 THEN <<3, 1>> ELSE <<1, 2>>
Mom(g, m) == IF m = 1 THEN g.M1 ELSE IF m = 2 THEN g.M2 ELSE g.M3
CellB(g, m) == IF m = 1 THEN g.B1c ELSE IF m = 2 THEN g.B2c ELSE g.B3c
Relabelled(dir, g) ==
  [d  |-> g.d,
   Mx |-> Mom(g, Perm(dir)[1]), My |-> Mom(g, Perm(dir)[2]), Mz |-> Mom(g, Perm(dir)[3]),
   E  |-> g.E,
   By |-> IF MHD THEN CellB(g, FieldPair(dir)[1]) ELSE Zero,
   Bz |-> IF MHD THEN CellB(g, FieldPair(dir)[2]) ELSE Zero,
   s  |-> g.s]
\* the component of flux F of direction dir that belongs to the momentum M_m:
\* the inverse of Perm(dir)
FluxMom(dir, F, m) ==
  LET n == CHOOSE x \in 1 .. 3 : Perm(dir)[x] = m
  IN  IF n = 1 THEN F.Mx ELSE IF n = 2 THEN F.My ELSE F.Mz
\* M_m of cell c of block A less q*(F_R - F_L) in every direction
MomLessFluxes(A, c, m, q1, q2, q3) ==
  LET D(dir, q) == RMul(q, RSub(FluxMom(dir, FluxAt(dir, Shift(c, dir, 1)), m),
                                FluxMom(dir, FluxAt(dir, c), m)))
  IN  RSub(RSub(RSub(Mom(GridAt(A, c), m), D(1, q1)), D(2, q2)), D(3, q3))
\* the same with the fluxes of the interfaces flagged correct_hydro left out
MomLessUnflagged(A, c, m) ==
  LET T(dir, f) == IF HasFlag(GridAt(Ineg, f), HydroFlag(dir)) THEN Zero
                   ELSE FluxMom(dir, FluxAt(dir, f), m)
      D(dir, q) == RMul(q, RSub(T(dir, Shift(c, dir, 1)), T(dir, c)))
  IN  RSub(RSub(RSub(Mom(GridAt(A, c), m), D(1, dtodx1)), D(2, dtodx2)), D(3, dtodx3))
\* the interfaces of direction dir that Steps 1-3 fill
PredictorFace(dir, c) ==
  /\ c \in Cells
  /\ Shift(c, dir, -1) \in Cells
\* the L/R states Steps 7a-7c store at interface c, from relabelled strips
RelabelledStrip(dir, c) ==
  LET lo == LoCorr(dir) + 1
      hi == HiCorr(dir) - 1
      at == Along(dir, c[1], c[2], c[3])
      cell(m) == IF dir = 1 THEN Uhalf[c[1]][c[2]][m]
                 ELSE IF dir = 2 THEN Uhalf[c[1]][m][c[3]] ELSE Uhalf[m][c[2]][c[3]]
      bx(m) == IF MHD THEN CellB(cell(m), dir) ELSE Zero
      Ws == [m \in StripIdx |-> pW(Cons1D_to_Prim1D(Relabelled(dir, cell(m)), bx(m)))]
      Bs == [m \in StripIdx |-> bx(m)]
  IN  [l |-> Prim1D_to_Cons1D(AsPrim1D(lr_states_Wl(Ws, Bs, Zero, lo, hi, at)), bx(at)),
       r |-> Prim1D_to_Cons1D(AsPrim1D(lr_states_Wr(Ws, Bs, Zero, lo, hi, at)), bx(at))]
\* d, Mx, My, Mz and E of two 1-D states agree
SameHydro(a, b) ==
  a.d = b.d /\ a.Mx = b.Mx /\ a.My = b.My /\ a.Mz = b.Mz /\ a.E = b.E

\* C28: every sweep relabels by the same cyclic shift - x1: (Mx,My,Mz) =
\* (M1,M2,M3), (By,Bz) = (B2c,B3c); x2: (M2,M3,M1), (B3c,B1c); x3: (M3,M1,M2),
\* (B1c,B2c) - in the states the predictor, the corrector strips and the
\* correction's re-flux hand to the solver, and the predictor update, the
\* corrector update and the correction's revert and re-application map
\* F.Mx, F.My, F.Mz back to M1, M2, M3 by the inverse shift.
C28_CyclicRelabelling ==
  /\ pc = "s4" =>
       \A dir \in 1 .. 3, c \in Cells :
         PredictorFace(dir, c) =>
           FluxAt(dir, c) = GET_FLUXES(solver, dir, c[1], c[2], c[3],
                                       IF MHD THEN GridAt(Bi(dir), c) ELSE Zero,
                                       Relabelled(dir, GridAt(U, Shift(c, dir, -1))),
                                       Relabelled(dir, GridAt(U, c)))
  /\ pc = "s7" /\ StaticGravPot = NULL =>
       \A c \in Cells, m \in 1 .. 3 :
         InLoop(c[1], c[2], c[3], kl + 1, ku - 1, jl + 1, ju - 1, il + 1, iu - 1) =>
           Mom(GridAt(Uhalf, c), m)
             = MomLessFluxes(U, c, m, RMul(Half, dtodx1), RMul(Half, dtodx2),
                             RMul(Half, dtodx3))
  /\ pc = "s9" =>
       \A dir \in 1 .. 3, c \in Cells :
         FaceOfActive(dir, c) =>
           /\ GridAt(UlFace(dir), c) = RelabelledStrip(dir, c).l
           /\ GridAt(UrFace(dir), c) = RelabelledStrip(dir, c).r
  /\ pc = "f_detect" =>
       \A c \in Cells, m \in 1 .. 3 :
         Updated(c[1], c[2], c[3]) =>
           Mom(GridAt(U, c), m) = MomLessFluxes(U12, c, m, dtodx1, dtodx2, dtodx3)
  /\ pc = "f_reflux" =>
       \A c \in Cells, m \in 1 .. 3 :
         InCorrCells(c[1], c[2], c[3]) =>
           Mom(GridAt(U, c), m) = MomLessUnflagged(U12, c, m)
  /\ pc = "f_emf" =>
       \A dir \in 1 .. 3, c \in Cells :
         Refluxed(dir, c[1], c[2], c[3]) =>
           /\ SameHydro(GridAt(UlFace(dir), c),
                        Relabelled(dir, GridAt(Uhalf, Shift(c, dir, -1))))
           /\ SameHydro(GridAt(UrFace(dir), c), Relabelled(dir, GridAt(Uhalf, c)))
           \* the transverse pair is the one Steps 7a-7c stored
           /\ GridAt(UlFace(dir), c).By = RelabelledStrip(dir, c).l.By
           /\ GridAt(UlFace(dir), c).Bz = RelabelledStrip(dir, c).l.Bz
           /\ GridAt(UrFace(dir), c).By = RelabelledStrip(dir, c).r.By
           /\ GridAt(UrFace(dir), c).Bz = RelabelledStrip(dir, c).r.Bz
  /\ pc = "f_check" =>
       \A c \in Cells, m \in 1 .. 3 :
         InCorrCells(c[1], c[2], c[3]) =>
           Mom(GridAt(U, c), m) = MomLessFluxes(U12, c, m, dtodx1, dtodx2, dtodx3)

\* the correction has re-fluxed an x3-interface of an active cell whose flux
\* has three different momentum components
C28_Witness ==
  /\ pc = "f_check"
  /\ \E c \in ActiveCells :
       /\ Refluxed(3, c[1], c[2], c[3])
       /\ FluxAt(3, c).Mx # FluxAt(3, c).My
       /\ FluxAt(3, c).My # FluxAt(3, c).Mz
       /\ FluxAt(3, c).Mx # FluxAt(3, c).Mz


\* the stated limiter on the characteristic differences of one cell
SignOf(x) == IF RPos(x) THEN One ELSE IF x = Zero THEN Zero ELSE R(-1)
StatedDa(dac, dal, dar, dag) ==
  Vec(LAMBDA n :
    IF RPos(RMul(dal[n], dar[n]))
    THEN RMul(SignOf(dac[n]),
              MIN(RMul(R(2), MIN(fabs(dal[n]), fabs(dar[n]))),
                  MIN(RDiv(fabs(dac[n]), R(2)), fabs(dag[n]))))
    ELSE Zero)
StatedVanLeer(dWl, dWr) ==
  Vec(LAMBDA n :
    IF RPos(RMul(dWl[n], dWr[n]))
    THEN RDiv(RMul(R(2), RMul(dWl[n], dWr[n])), RAdd(dWl[n], dWr[n]))
    ELSE Zero)
\* the characteristic differences of cell i of the strip: centred, left,
\* right, and the projection of the van Leer difference
CharDiffs(i) ==
  LET lem == esys_prim(AsPrim1D(plm.W[i]), plm.Bxc[i]).lem
      dWl == VSub(plm.W[i], plm.W[i - 1])
      dWr == VSub(plm.W[i + 1], plm.W[i])
  IN  [c |-> Proj(lem, VSub(plm.W[i + 1], plm.W[i - 1])),
       l |-> Proj(lem, dWl),
       r |-> Proj(lem, dWr),
       g |-> Proj(lem, StatedVanLeer(dWl, dWr))]
\* da of Step 4 at cell i, and the stated one
CodeDa(i) ==
  LET lem == esys_prim(AsPrim1D(plm.W[i]), plm.Bxc[i]).lem
      dWl == VSub(plm.W[i], plm.W[i - 1])
      dWr == VSub(plm.W[i + 1], plm.W[i])
  IN  lim_slope(Proj(lem, VSub(plm.W[i + 1], plm.W[i - 1])), Proj(lem, dWl),
                Proj(lem, dWr), Proj(lem, vanLeer(dWl, dWr)))
StatedCell(i) ==
  LET es == esys_prim(AsPrim1D(plm.W[i]), plm.Bxc[i])
      d == CharDiffs(i)
  IN  lr_step7(plm.W[i - 1], plm.W[i], plm.W[i + 1],
               ProjBack(es.rem, StatedDa(d.c, d.l, d.r, d.g)), es.ev, Zero)

\* C29: in lr_states, for every cell i of the loop il-1 .. iu+1 and every
\* characteristic component n, the limited increment is
\* sign(da_c)*min(2*min(|da_l|,|da_r|), |da_c|/2, |da_g|) when da_l*da_r > 0
\* and 0 otherwise, da_g being the projection of the van Leer difference;
\* Wl[i+1] and Wr[i] are the values Steps 5 to 8 make of that increment.
C29_LimitedSlope ==
  pc = "plm1" =>
    \A i \in plm_il - 1 .. plm_iu + 1 :
      LET d == CharDiffs(i)
      IN  /\ CodeDa(i) = StatedDa(d.c, d.l, d.r, d.g)
          /\ plm.Wl[i + 1] = StatedCell(i).Wl
          /\ plm.Wr[i] = StatedCell(i).Wr

\* a strip with a component bounded by the van Leer difference, one bounded
\* by the centred difference, one with da_c < 0, one with da_l*da_r <= 0 and
\* da_c # 0, and one whose projected van Leer difference is not the van Leer
\* difference of the projections
LimiterCase(i, n) ==
  LET d == CharDiffs(i)
      a == RMul(R(2), MIN(fabs(d.l[n]), fabs(d.r[n])))
      b == RDiv(fabs(d.c[n]), R(2))
      g == fabs(d.g[n])
  IN  IF ~RPos(RMul(d.l[n], d.r[n]))
      THEN (IF d.c[n] # Zero THEN {"flat"} ELSE {})
      ELSE (IF RPos(RSub(a, g)) /\ RPos(RSub(b, g)) THEN {"vanLeer"} ELSE {})
           \cup (IF RPos(RSub(a, b)) /\ RPos(RSub(g, b)) THEN {"centred"} ELSE {})
           \cup (IF RNegative(d.c[n]) THEN {"negative"} ELSE {})
           \cup (IF d.g[n] # StatedVanLeer(d.l, d.r)[n] THEN {"projected"} ELSE {})
C29_Witness ==
  /\ pc = "plm1"
  /\ UNION {LimiterCase(i, n) : i \in plm_il - 1 .. plm_iu + 1, n \in 1 .. NWAVE + 1}
       = {"flat", "vanLeer", "centred", "negative", "projected"}

\* C30: for every block with at least one cell per direction and nghost at or
\* above the minimum integrate_init_3d asks for, every index used on a 3-D
\* array during a step, the +1/-1 offsets of the EMF assemblers, the CT
\* updates, the flag propagation and the correction loops included, lies in
\* [kl,ku] x [jl,ju] x [il,iu] and in the allocated array, and every index
\* into a 1-D strip, those of lr_states included, lies in the allocated strip.
C30_IndexSafety ==
  (pc = "cfg2" /\ ix.kind # "none") =>
    IF ix.kind = "3d"
    THEN \A p \in 1 .. 3 :
           /\ LoopLimit("l", p) <= ix.at[p] /\ ix.at[p] <= LoopLimit("u", p)
           /\ 0 <= ix.at[p] /\ ix.at[p] < Allocated(p)
    ELSE 0 <= ix.at[1] /\ ix.at[1] < nmax

\* with no ghost cell to spare, the flag propagation of a first-order MHD
\* build reads Ineg at i+1 = iu, the last element of a row
C30_Witness ==
  /\ pc = "cfg2"
  /\ cfg.mhd /\ cfg.order = 1 /\ cfg.nghost = cfg.minghost
  /\ ix.kind = "3d" /\ ix.nx = <<1, 1, 1>>
  /\ ix.line \in {n.line : n \in CorrectionLoops}
  /\ ix.off = <<0, 0, 1>>
  /\ ix.at[3] = Allocated(3) - 1
  /\ ix.at[1] = LoopLimit("b", 1) + 1

=============================================================================
